---------------------------- MODULE Spec2Model ----------------------------
(***************************************************************************)
(* Component registry, typed flow-graph synthesis and keyword-fallback     *)
(* intent classification of the AxieStudio flow generator.                  *)
(*                                                                         *)
(* Strings are TLA+ strings; lower(), substring tests and the f-string     *)
(* concatenations of the source are computed character by character.       *)
(***************************************************************************)
EXTENDS Integers, Sequences, FiniteSets, TLC

VARIABLES
    indexed,      \* flow_indexer.components: records mined from component files
    components,   \* component_kb.components: the registry the synthesizer reads
    pc,           \* "idle" | "returned" | "raised" | "classified"
    requirement,  \* FlowRequirement.components_needed of the call in progress
    flow,         \* flow_json["data"] of the last generate_flow_json call
    intent,       \* result of the last keyword-fallback classification
    first,        \* label, node ids and edges of the first of two runs
    templates,    \* template_generator.templates: starter projects by file stem
    super,        \* the generate_flow call of the service: its locals and result
    compatible,   \* the last get_compatible_components call: argument and result
    structure,    \* flow_structure of the last _create_flow_json call
    flows,        \* axiestudio_data['flows'] of the chat: example flows by name
    chat,         \* the chat call in progress: its locals and result
    files,        \* the artifact set on disk: component files and flow files
    indexer,      \* FlowIndexer: its flows table and the position of its loops
    crawler,      \* real_axiestudio_crawler: its tables and the position of its loops
    observed      \* what a reader of the crawler's tables saw last

\* the variables of the generation service
svc == <<templates, super>>

\* the variables of the conversational generator
conv == <<flows, chat>>

\* the variables of the extractors
extr == <<files, indexer, crawler, observed>>

\* the variables the synthesizer and the classifiers never write
ext == <<first, svc, conv, extr>>

\* the arguments of the calls that only read
calls == <<compatible, structure>>

vars == <<indexed, components, pc, requirement, flow, intent, calls, ext>>

---------------------------------------------------------------------------
(* Bounds of the model *)

\* longest component list handed to generate_flow_json
MaxLen == 4
\* largest number of phrases joined into one classified text
MaxWords == 2
\* longest component list that is generated twice in a row
MaxRunLen == 5
\* component files on disk
MaxFiles == 2
\* nodes carrying a type and edges of a starter project
MaxNodes == 8
MaxEdges == 7
\* crawl_all calls on the one crawler
MaxCrawls == 2

---------------------------------------------------------------------------
(* str.lower() and the `in` substring test *)

UpperLetters == "ABCDEFGHIJKLMNOPQRSTUVWXYZ"
LowerLetters == "abcdefghijklmnopqrstuvwxyz"

\* the lower-case letter of each upper-case letter
LowerMap ==
    [c \in {SubSeq(UpperLetters, k, k) : k \in 1..Len(UpperLetters)} |->
        LET k == CHOOSE k \in 1..Len(UpperLetters) : SubSeq(UpperLetters, k, k) = c
        IN  SubSeq(LowerLetters, k, k)]

LowerChar(c) == IF c \in DOMAIN LowerMap THEN LowerMap[c] ELSE c

RECURSIVE LowerOf(_)
LowerOf(s) ==
    IF Len(s) <= 1 THEN LowerChar(s)
    ELSE LET h == Len(s) \div 2
         IN  LowerOf(SubSeq(s, 1, h)) \o LowerOf(SubSeq(s, h + 1, Len(s)))

\* the slot types of the registry and of the extractor, lower-cased once
TypeNames ==
    {"str", "bool", "file", "int", "float", "Message", "LanguageModel", "Tool",
     "Data", "Embeddings", "Retriever", "message", "MessageTextInput"}

LowerOfTypeName == [t \in TypeNames |-> LowerOf(t)]

\* s.lower()
Lower(s) == IF s \in TypeNames THEN LowerOfTypeName[s] ELSE LowerOf(s)

\* kw in text
Contains(kw, text) ==
    \E i \in 1..(Len(text) - Len(kw) + 1) : SubSeq(text, i, i + Len(kw) - 1) = kw

\* any(kw in text for kw in kws)
AnyKeyword(kws, text) == \E k \in 1..Len(kws) : Contains(kws[k], text)

StartsWith(s, prefix) ==
    Len(s) >= Len(prefix) /\ SubSeq(s, 1, Len(prefix)) = prefix

\* user_description[:50]
Prefix50(text) == IF Len(text) <= 50 THEN text ELSE SubSeq(text, 1, 50)

---------------------------------------------------------------------------
(* The hand-authored registry: AxieStudioComponentKB._initialize_components *)

Slot(n, t, d) == [name |-> n, type |-> t, display_name |-> d]

ChatInputInfo ==
    [name |-> "ChatInput", display_name |-> "Chat Input", category |-> "input_output",
     inputs |-> << Slot("input_value", "str", "Input Text"),
                   Slot("should_store_message", "bool", "Store Messages"),
                   Slot("sender", "str", "Sender Type"),
                   Slot("files", "file", "Files") >>,
     outputs |-> << Slot("message", "Message", "Message") >>]

ChatOutputInfo ==
    [name |-> "ChatOutput", display_name |-> "Chat Output", category |-> "input_output",
     inputs |-> << Slot("input_value", "Message", "Text"),
                   Slot("should_store_message", "bool", "Store Messages") >>,
     outputs |-> << >>]

TextInputInfo ==
    [name |-> "TextInput", display_name |-> "Text Input", category |-> "input_output",
     inputs |-> << Slot("input_value", "str", "Text") >>,
     outputs |-> << Slot("text", "Message", "Text") >>]

OpenAIModelInfo ==
    [name |-> "OpenAIModel", display_name |-> "OpenAI", category |-> "models",
     inputs |-> << Slot("input_value", "Message", "Input"),
                   Slot("model_name", "str", "Model Name"),
                   Slot("temperature", "float", "Temperature"),
                   Slot("max_tokens", "int", "Max Tokens"),
                   Slot("api_key", "str", "OpenAI API Key") >>,
     outputs |-> << Slot("text_output", "Message", "Text"),
                    Slot("model_output", "LanguageModel", "Language Model") >>]

AnthropicModelInfo ==
    [name |-> "AnthropicModel", display_name |-> "Anthropic", category |-> "models",
     inputs |-> << Slot("input_value", "Message", "Input"),
                   Slot("model_name", "str", "Model Name"),
                   Slot("temperature", "float", "Temperature"),
                   Slot("max_tokens", "int", "Max Tokens"),
                   Slot("api_key", "str", "Anthropic API Key") >>,
     outputs |-> << Slot("text_output", "Message", "Text"),
                    Slot("model_output", "LanguageModel", "Language Model") >>]

AgentInfo ==
    [name |-> "Agent", display_name |-> "Agent", category |-> "agents",
     inputs |-> << Slot("llm", "LanguageModel", "Language Model"),
                   Slot("tools", "Tool", "Tools"),
                   Slot("agent_llm", "LanguageModel", "Agent LLM"),
                   Slot("system_message", "str", "System Message"),
                   Slot("user_message", "Message", "User Message") >>,
     outputs |-> << Slot("response", "Message", "Response") >>]

FileComponentInfo ==
    [name |-> "FileComponent", display_name |-> "File", category |-> "data",
     inputs |-> << Slot("path", "str", "File Path") >>,
     outputs |-> << Slot("data", "Data", "Data") >>]

TextSplitterInfo ==
    [name |-> "TextSplitter", display_name |-> "Text Splitter", category |-> "processing",
     inputs |-> << Slot("documents", "Data", "Documents"),
                   Slot("chunk_size", "int", "Chunk Size"),
                   Slot("chunk_overlap", "int", "Chunk Overlap") >>,
     outputs |-> << Slot("chunks", "Data", "Text Chunks") >>]

ChromaDBInfo ==
    [name |-> "ChromaDB", display_name |-> "Chroma", category |-> "vectorstores",
     inputs |-> << Slot("documents", "Data", "Documents"),
                   Slot("embedding", "Embeddings", "Embedding Model"),
                   Slot("collection_name", "str", "Collection Name") >>,
     outputs |-> << Slot("retriever", "Retriever", "Retriever") >>]

OpenAIEmbeddingsInfo ==
    [name |-> "OpenAIEmbeddings", display_name |-> "OpenAI Embeddings",
     category |-> "embeddings",
     inputs |-> << Slot("api_key", "str", "OpenAI API Key"),
                   Slot("model", "str", "Model Name") >>,
     outputs |-> << Slot("embeddings", "Embeddings", "Embeddings") >>]

CalculatorComponentInfo ==
    [name |-> "CalculatorComponent", display_name |-> "Calculator", category |-> "tools",
     inputs |-> << Slot("expression", "str", "Expression") >>,
     outputs |-> << Slot("result", "str", "Result"),
                    Slot("component_as_tool", "Tool", "Tool") >>]

WebSearchToolInfo ==
    [name |-> "WebSearchTool", display_name |-> "Web Search", category |-> "tools",
     inputs |-> << Slot("query", "str", "Search Query"),
                   Slot("api_key", "str", "API Key") >>,
     outputs |-> << Slot("results", "str", "Search Results"),
                    Slot("component_as_tool", "Tool", "Tool") >>]

initialize_components ==
    ("ChatInput" :> ChatInputInfo) @@ ("ChatOutput" :> ChatOutputInfo) @@
    ("TextInput" :> TextInputInfo) @@ ("OpenAIModel" :> OpenAIModelInfo) @@
    ("AnthropicModel" :> AnthropicModelInfo) @@ ("Agent" :> AgentInfo) @@
    ("FileComponent" :> FileComponentInfo) @@ ("TextSplitter" :> TextSplitterInfo) @@
    ("ChromaDB" :> ChromaDBInfo) @@ ("OpenAIEmbeddings" :> OpenAIEmbeddingsInfo) @@
    ("CalculatorComponent" :> CalculatorComponentInfo) @@
    ("WebSearchTool" :> WebSearchToolInfo)

---------------------------------------------------------------------------
(* Records of the static extractor, merged by _load_indexed_components *)

\* FlowIndexer._extract_inputs: name, type and required, no display_name
IndexedInput(n, t, r) == [name |-> n, type |-> t, required |-> r]
\* FlowIndexer._extract_outputs: the slot name is always "output"
IndexedOutput(t) == [name |-> "output", type |-> t]

IndexedInfo(n, d, ins, outs) ==
    [name |-> n, class_name |-> n, display_name |-> d, category |-> "MODELS",
     inputs |-> ins, outputs |-> outs]

NoIndex == [n \in {} |-> 0]

\* What flow_indexer.components can hold, by the component files on disk:
\* nothing (no data directory, or the import fails); a class LanguageModel
\* whose body holds `self.status = message`; the same class declaring an
\* input field `input_value = MessageTextInput(` and `return Message(`.
IndexedChoices ==
    { NoIndex,
      "LanguageModel" :> IndexedInfo("LanguageModel", "Language Model",
                                     << >>, << IndexedOutput("message") >>),
      "LanguageModel" :> IndexedInfo("LanguageModel", "Language Model",
                                     << IndexedInput("input_value", "MessageTextInput", FALSE) >>,
                                     << IndexedOutput("Message") >>) }

\* the ComponentInfo built for an indexed record
ConvertIndexed(c) ==
    [name |-> c.name, display_name |-> c.display_name, category |-> "processing",
     inputs |-> c.inputs, outputs |-> c.outputs]

\* the merge with the membership test left out
load_indexed_components_overwriting(comps, idx) ==
    [n \in DOMAIN comps \cup DOMAIN idx |->
        IF n \in DOMAIN idx THEN ConvertIndexed(idx[n]) ELSE comps[n]]

\* AxieStudioComponentKB._load_indexed_components
load_indexed_components(comps, idx) ==
    [n \in DOMAIN comps \cup DOMAIN idx |->
        IF n \in DOMAIN comps THEN comps[n] ELSE ConvertIndexed(idx[n])]

\* AxieStudioComponentKB.get_component: dict.get, None as the empty sequence
get_component(name) ==
    IF name \in DOMAIN components THEN << components[name] >> ELSE << >>

---------------------------------------------------------------------------
(* FlowGenerator: typed flow-graph synthesis *)

x_spacing == 300
y_spacing == 200
start_x == 100
start_y == 100
GridColumns == 3

\* FlowGenerator._calculate_node_positions; index i of the source is i - 1 here
calculate_node_positions(names) ==
    [i \in 1..Len(names) |->
        [x |-> start_x + ((i - 1) % GridColumns) * x_spacing,
         y |-> start_y + ((i - 1) \div GridColumns) * y_spacing]]

\* A field value of a node: the Python type of the value and its repr
Value(t, r) == [pytype |-> t, repr |-> r]

\* a default table holding only the five entries the design text lists
get_default_value_five_entries(field_name, field_type) ==
    CASE field_name = "model_name"      -> Value("str", "gpt-3.5-turbo")
      [] field_name = "temperature"     -> Value("float", "0.7")
      [] field_name = "chunk_size"      -> Value("int", "1000")
      [] field_name = "chunk_overlap"   -> Value("int", "200")
      [] field_name = "collection_name" -> Value("str", "documents")
      [] OTHER                          -> Value("str", "")

\* FlowGenerator._get_default_value: defaults.get(field_name, "")
get_default_value(field_name, field_type) ==
    CASE field_name = "model_name"           -> Value("str", "gpt-3.5-turbo")
      [] field_name = "temperature"          -> Value("float", "0.7")
      [] field_name = "max_tokens"           -> Value("int", "1000")
      [] field_name = "chunk_size"           -> Value("int", "1000")
      [] field_name = "chunk_overlap"        -> Value("int", "200")
      [] field_name = "collection_name"      -> Value("str", "documents")
      [] field_name = "should_store_message" -> Value("bool", "True")
      [] field_name = "sender"               -> Value("str", "User")
      [] OTHER                               -> Value("str", "")

\* template[field_name] = entry: a dict keeps the position of a key's first
\* insertion and the value of its last
DictSet(d, key, entry) ==
    IF \E k \in 1..Len(d) : d[k].name = key
    THEN [k \in 1..Len(d) |-> IF d[k].name = key THEN entry ELSE d[k]]
    ELSE Append(d, entry)

\* input_field["display_name"] raises KeyError on a slot that has none
create_node_raises(component_info) ==
    \E j \in 1..Len(component_info.inputs) :
        "display_name" \notin DOMAIN component_info.inputs[j]

TemplateEntry(input_field) ==
    [name |-> input_field.name,
     type |-> IF input_field.type # "Message" THEN Lower(input_field.type) ELSE "str",
     required |-> input_field.name \in {"input_value", "llm", "documents"},
     show |-> TRUE,
     display_name |-> input_field.display_name,
     value |-> get_default_value(input_field.name, input_field.type)]

RECURSIVE BuildTemplate(_, _, _)
BuildTemplate(inputs, j, template) ==
    IF j > Len(inputs) THEN template
    ELSE BuildTemplate(inputs, j + 1,
                       DictSet(template, inputs[j].name, TemplateEntry(inputs[j])))

\* FlowGenerator._create_node (called only when create_node_raises is false)
create_node(node_id, component_info, position) ==
    [id |-> node_id,
     type |-> component_info.name,
     position |-> position,
     template |-> BuildTemplate(component_info.inputs, 1, << >>),
     output_types |-> [k \in 1..Len(component_info.outputs) |->
                          component_info.outputs[k].type],
     field_order |-> [k \in 1..Len(component_info.inputs) |->
                          component_info.inputs[k].name]]

\* a position taken by the count of nodes created so far, not by the index
\* of the name in the list
node_position_by_node_count(node_positions, i, nodes) == node_positions[Len(nodes) + 1]

\* position = node_positions[i]
node_position(node_positions, i, nodes) == node_positions[i]

\* the node loop of generate_flow_json; short_ids[k] is what the k-th call of
\* _generate_short_id returns
RECURSIVE NodeLoop(_, _, _, _, _)
NodeLoop(names, node_positions, short_ids, i, nodes) ==
    IF i > Len(names) THEN [raised |-> FALSE, nodes |-> nodes]
    ELSE LET found == get_component(names[i])
         IN  IF found = << >>
             THEN NodeLoop(names, node_positions, short_ids, i + 1, nodes)
             ELSE IF create_node_raises(found[1])
                  THEN [raised |-> TRUE, nodes |-> << >>]
                  ELSE NodeLoop(names, node_positions, short_ids, i + 1,
                           Append(nodes,
                               create_node(names[i] \o "-" \o short_ids[Len(nodes) + 1],
                                           found[1],
                                           node_position(node_positions, i, nodes))))

\* a test without the Message/str equivalence
TypesMatchExact(config_type, output_type) == config_type = Lower(output_type)

\* the test of _create_edges on a template entry's type and an output type
TypesMatch(config_type, output_type) ==
    \/ config_type = Lower(output_type)
    \/ (output_type = "Message" /\ config_type = "str")

\* FlowGenerator._create_edge
create_edge(source_node, target_node, output_type, input_name) ==
    [id |-> "reactflow__edge-" \o source_node.id \o "-" \o target_node.id,
     source |-> source_node.id,
     target |-> target_node.id,
     sourceHandle |-> [dataType |-> source_node.type, id |-> source_node.id,
                       name |-> "output", output_types |-> << output_type >>],
     targetHandle |-> [fieldName |-> input_name, id |-> target_node.id,
                       inputTypes |-> << output_type >>,
                       type |-> Lower(output_type)]]

\* inner loop: index of the first template entry matching output_type, 0 if none
RECURSIVE ScanInputs(_, _, _)
ScanInputs(template, output_type, j) ==
    IF j > Len(template) THEN 0
    ELSE IF TypesMatch(template[j].type, output_type) THEN j
         ELSE ScanInputs(template, output_type, j + 1)

\* outer loop over the source's output types: the edges of one adjacent pair
RECURSIVE ScanOutputs(_, _, _)
ScanOutputs(source_node, target_node, o) ==
    IF o > Len(source_node.output_types) THEN << >>
    ELSE LET j == ScanInputs(target_node.template, source_node.output_types[o], 1)
         IN  IF j > 0
             THEN << create_edge(source_node, target_node,
                                 source_node.output_types[o],
                                 target_node.template[j].name) >>
             ELSE ScanOutputs(source_node, target_node, o + 1)

\* loops nested the other way round: slots outside, output types inside
RECURSIVE ScanSlotsFirst(_, _, _)
ScanSlotsFirst(source_node, target_node, j) ==
    IF j > Len(target_node.template) THEN << >>
    ELSE LET outs == source_node.output_types
             hits == {o \in 1..Len(outs) :
                         TypesMatch(target_node.template[j].type, outs[o])}
         IN  IF hits # {}
             THEN << create_edge(source_node, target_node,
                                 outs[CHOOSE o \in hits : \A q \in hits : o <= q],
                                 target_node.template[j].name) >>
             ELSE ScanSlotsFirst(source_node, target_node, j + 1)

PairEdgesSlotsFirst(source_node, target_node) == ScanSlotsFirst(source_node, target_node, 1)

\* the outer loop without its break: one edge per matching output type
RECURSIVE ScanOutputsNoBreak(_, _, _)
ScanOutputsNoBreak(source_node, target_node, o) ==
    IF o > Len(source_node.output_types) THEN << >>
    ELSE LET j == ScanInputs(target_node.template, source_node.output_types[o], 1)
         IN  (IF j > 0
              THEN << create_edge(source_node, target_node,
                                  source_node.output_types[o],
                                  target_node.template[j].name) >>
              ELSE << >>)
             \o ScanOutputsNoBreak(source_node, target_node, o + 1)

PairEdgesFanOut(source_node, target_node) == ScanOutputsNoBreak(source_node, target_node, 1)

PairEdges(source_node, target_node) == ScanOutputs(source_node, target_node, 1)

\* FlowGenerator._create_edges
RECURSIVE EdgeLoop(_, _, _)
EdgeLoop(nodes, i, edges) ==
    IF i > Len(nodes) - 1 THEN edges
    ELSE EdgeLoop(nodes, i + 1, edges \o PairEdges(nodes[i], nodes[i + 1]))

create_edges(nodes) == EdgeLoop(nodes, 1, << >>)

\* number of names of the list that resolve: the calls of _generate_short_id
ResolvedIndices(names) ==
    SelectSeq([i \in 1..Len(names) |-> i], LAMBDA i : get_component(names[i]) # << >>)

---------------------------------------------------------------------------
(* Keyword-fallback intent classification *)

\* the agent keywords tested before the document keywords
super_fallback_agent_first(user_description) ==
    LET desc_lower == Lower(user_description)
    IN  IF AnyKeyword(<<"agent", "tool", "search", "autonomous">>, desc_lower)
        THEN [primary_use_case |-> "agent_tools", capabilities |-> <<"agents", "tools">>]
        ELSE IF AnyKeyword(<<"document", "pdf", "file", "q&a", "question">>, desc_lower)
        THEN [primary_use_case |-> "document_qa",
              capabilities |-> <<"document_processing", "embeddings">>]
        ELSE IF AnyKeyword(<<"rag", "retrieval", "vector", "embedding">>, desc_lower)
        THEN [primary_use_case |-> "rag_system",
              capabilities |-> <<"embeddings", "vectorstore">>]
        ELSE [primary_use_case |-> "basic_chat", capabilities |-> <<"chat">>]

\* SuperAIFlowGenerator._fallback_intent_analysis
super_fallback_intent_analysis(user_description) ==
    LET desc_lower == Lower(user_description)
    IN  IF AnyKeyword(<<"document", "pdf", "file", "q&a", "question">>, desc_lower)
        THEN [primary_use_case |-> "document_qa",
              capabilities |-> <<"document_processing", "embeddings">>]
        ELSE IF AnyKeyword(<<"agent", "tool", "search", "autonomous">>, desc_lower)
        THEN [primary_use_case |-> "agent_tools", capabilities |-> <<"agents", "tools">>]
        ELSE IF AnyKeyword(<<"rag", "retrieval", "vector", "embedding">>, desc_lower)
        THEN [primary_use_case |-> "rag_system",
              capabilities |-> <<"embeddings", "vectorstore">>]
        ELSE [primary_use_case |-> "basic_chat", capabilities |-> <<"chat">>]

\* AIFlowGenerator._fallback_intent_analysis
ai_fallback_intent_analysis(user_description) ==
    LET user_lower == Lower(user_description)
    IN  IF AnyKeyword(<<"document", "pdf", "file", "q&a">>, user_lower)
        THEN [primary_use_case |-> "document_qa",
              capabilities |-> <<"file_processing", "embeddings">>]
        ELSE IF AnyKeyword(<<"agent", "tool", "search">>, user_lower)
        THEN [primary_use_case |-> "agent_tools", capabilities |-> <<"tools", "reasoning">>]
        ELSE [primary_use_case |-> "basic_chat", capabilities |-> <<"conversation">>]

\* FlowGenerator.analyze_user_intent: the FlowRequirement it returns
analyze_user_intent(user_input) ==
    LET user_input_lower == Lower(user_input)
        specific_models ==
            IF Contains("gpt-4", user_input_lower) \/ Contains("openai", user_input_lower)
            THEN <<"OpenAIModel">>
            ELSE IF Contains("claude", user_input_lower)
                    \/ Contains("anthropic", user_input_lower)
                 THEN <<"AnthropicModel">>
                 ELSE << >>
        chosen ==
            IF AnyKeyword(<<"document", "pdf", "file", "upload", "q&a", "question", "answer">>,
                          user_input_lower)
            THEN [flow_type |-> "document_qa",
                  components |-> <<"ChatInput", "FileComponent", "TextSplitter",
                                   "OpenAIEmbeddings", "ChromaDB", "OpenAIModel",
                                   "ChatOutput">>]
            ELSE IF AnyKeyword(<<"agent", "tool", "search", "calculator", "autonomous">>,
                               user_input_lower)
            THEN [flow_type |-> "agent_tools",
                  components |->
                      <<"ChatInput", "Agent", "OpenAIModel", "ChatOutput">>
                      \o (IF Contains("calculator", user_input_lower)
                             \/ Contains("math", user_input_lower)
                          THEN <<"CalculatorComponent">> ELSE << >>)
                      \o (IF Contains("search", user_input_lower)
                             \/ Contains("web", user_input_lower)
                          THEN <<"WebSearchTool">> ELSE << >>)]
            ELSE IF AnyKeyword(<<"chat", "conversation", "talk", "bot">>, user_input_lower)
            THEN [flow_type |-> "basic_chat",
                  components |-> <<"ChatInput", "OpenAIModel", "ChatOutput">>]
            ELSE [flow_type |-> "basic_chat",
                  components |-> <<"ChatInput", "OpenAIModel", "ChatOutput">>]
    IN  [flow_type |-> chosen.flow_type,
         components_needed |-> chosen.components,
         user_description |-> user_input,
         specific_models |-> specific_models]

---------------------------------------------------------------------------
(* Inputs *)

\* names a caller puts in components_needed
NamePool == {"ChatInput", "OpenAIModel", "Agent", "ChatOutput", "LanguageModel"}

\* str(uuid.uuid4())[:5]: five hexadecimal digits
ShortIds == {"00000", "a3f9c"}

ComponentLists == UNION {[1..n -> NamePool] : n \in 0..MaxLen}

\* the descriptions of tests/test_generator.py and single keywords
PdfRequest == "Create a chatbot that can answer questions about PDF documents"

Phrases ==
    { PdfRequest,
      "Build an AI agent that can search the web and do calculations",
      "Make a simple chat interface with GPT-4",
      "Create a document processing pipeline with embeddings",
      "I want to build a chatbot using Claude",
      "RAG retrieval", "Upload", "autonomous", "Question", "calculator", "hello" }

RECURSIVE Join(_)
Join(ws) == IF ws = << >> THEN ""
            ELSE IF Len(ws) = 1 THEN ws[1]
            ELSE ws[1] \o " " \o Join(Tail(ws))

Texts == { Join(ws) : ws \in UNION {[1..n -> Phrases] : n \in 0..MaxWords} }

\* the expected_type column of the test suite's table
ExpectedType ==
    (PdfRequest :> "document_qa") @@
    ("Build an AI agent that can search the web and do calculations" :> "agent_tools") @@
    ("Make a simple chat interface with GPT-4" :> "basic_chat") @@
    ("Create a document processing pipeline with embeddings" :> "rag_system") @@
    ("I want to build a chatbot using Claude" :> "basic_chat")

EmptyFlow == [nodes |-> << >>, edges |-> << >>]

\* "viewport": {"x": 0, "y": 0, "zoom": 1}
DefaultViewport == [x |-> 0, y |-> 0, zoom |-> 1]
NoIntent == [by |-> "", text |-> "", label |-> "", components |-> << >>]
NoRun == [label |-> "", node_ids |-> << >>, edges |-> << >>]

\* TemplateFlowGenerator._load_templates when the templates directory is missing
NoTemplates == [n \in {} |-> 0]
\* a value json.loads returned, or a fallback record: its JSON kind, its
\* primary_use_case entry if it is an object holding one, and where it came from
JsonValue(kind, use_case, via) == [json |-> kind, use_case |-> use_case, via |-> via]
NoValue == JsonValue("none", << >>, "")
NoOutcome == [success |-> FALSE, raised |-> FALSE, error |-> "", flow_data |-> << >>,
              components_count |-> 0, template_used |-> ""]
\* no call of the service in progress
NoReply == [kind |-> "", items |-> << >>]
\* no artifact on disk
NoFiles == [component_files |-> << >>, flow_files |-> << >>]

\* FlowIndexer.__init__ before _index_all: no flow, no file visited
NoIndexer == [flows |-> [n \in {} |-> 0], position |-> 0, loaded |-> FALSE]

\* the three tables of the crawler, empty
NoTables == [components |-> [n \in {} |-> 0], flows |-> << >>,
             component_relationships |-> [n \in {} |-> 0]]

\* RealAxieStudioCrawler.__init__: three empty tables, no crawl running.
\* flows is kept as the sequence of its values in insertion order;
\* hash_order is the order in which this process iterates a set of names;
\* changed tells that the artifact set changed since the last crawl began,
\* repeat that the crawl last begun found the artifact set of the one before,
\* last holds the tables the crawl before it left, restarted tells that the
\* crawl before it ran in an earlier process
NoCrawler ==
    [components |-> NoTables.components, flows |-> NoTables.flows,
     component_relationships |-> NoTables.component_relationships,
     position |-> 0, crawls |-> 0, before |-> NoTables, changed |-> FALSE,
     repeat |-> FALSE, last |-> NoTables, restarted |-> FALSE, hash_order |-> << >>]

\* no reader has looked
NoObservation == [seen |-> FALSE, components |-> NoTables.components,
                  before |-> NoTables.components, after |-> NoTables.components]

\* _create_flow_json not called
NoStructure == [kind |-> "none"]

\* get_compatible_components not called
NoQuery == [output_type |-> "", result |-> << >>]

\* no example flow was crawled
NoFlows == [n \in {} |-> 0]

\* no flow document
NoDocument == [name |-> "", description |-> "", template_used |-> "", fallback_flow |-> FALSE]

\* chat not called
NoChat == [message |-> "", wants_flow |-> FALSE, flow_type |-> "", template |-> "",
           raised |-> FALSE, flow |-> NoDocument]

NoCall == [description |-> "", use_ai |-> FALSE, intent_reply |-> "", intent |-> NoValue,
           select_reply |-> NoReply, selected |-> << >>, outcome |-> NoOutcome]

---------------------------------------------------------------------------
(* Actions *)

Init ==
    /\ indexed \in IndexedChoices
    /\ components = load_indexed_components(initialize_components, indexed)
    /\ pc = "idle"
    /\ requirement = << >>
    /\ flow = EmptyFlow
    /\ intent = NoIntent
    /\ first = NoRun
    /\ templates = NoTemplates
    /\ super = NoCall
    /\ compatible = NoQuery
    /\ structure = NoStructure
    /\ files = NoFiles
    /\ indexer = NoIndexer
    /\ crawler = NoCrawler
    /\ observed = NoObservation
    /\ flows = NoFlows
    /\ chat = NoChat

\* FlowGenerator.generate_flow_json
generate_flow_json(names, short_ids) ==
    /\ pc = "idle"
    /\ requirement' = names
    /\ LET result == NodeLoop(names, calculate_node_positions(names), short_ids, 1, << >>)
       IN  IF result.raised
           THEN /\ pc' = "raised"
                /\ flow' = EmptyFlow
           ELSE /\ pc' = "returned"
                /\ flow' = [edges |-> create_edges(result.nodes), nodes |-> result.nodes,
                            viewport |-> DefaultViewport]
    /\ UNCHANGED <<ext, calls, indexed, components, intent>>

\* the except branch of SuperAIFlowGenerator._analyze_intent_super_fast
SuperFallback ==
    /\ pc = "idle"
    /\ \E text \in Texts :
         intent' = [by |-> "super", text |-> text,
                    label |-> super_fallback_intent_analysis(text).primary_use_case,
                    components |-> << >>]
    /\ pc' = "classified"
    /\ UNCHANGED <<ext, calls, indexed, components, requirement, flow>>

\* the except branch of AIFlowGenerator._analyze_intent_with_ai
AIFallback ==
    /\ pc = "idle"
    /\ \E text \in Texts :
         intent' = [by |-> "ai", text |-> text,
                    label |-> ai_fallback_intent_analysis(text).primary_use_case,
                    components |-> << >>]
    /\ pc' = "classified"
    /\ UNCHANGED <<ext, calls, indexed, components, requirement, flow>>

\* a caller of FlowGenerator.analyze_user_intent
AnalyzeUserIntent ==
    /\ pc = "idle"
    /\ \E text \in Texts :
         LET r == analyze_user_intent(text)
         IN  intent' = [by |-> "rules", text |-> text, label |-> r.flow_type,
                        components |-> r.components_needed]
    /\ pc' = "classified"
    /\ UNCHANGED <<ext, calls, indexed, components, requirement, flow>>

\* the order of self.components: the built-in records as inserted by
\* _initialize_components, then the indexed ones _load_indexed_components adds
InsertionOrder ==
    <<"ChatInput", "ChatOutput", "TextInput", "OpenAIModel", "AnthropicModel", "Agent",
      "FileComponent", "TextSplitter", "ChromaDB", "OpenAIEmbeddings",
      "CalculatorComponent", "WebSearchTool", "LanguageModel">>

\* list(self.components.values())
ComponentValues ==
    LET names == SelectSeq(InsertionOrder, LAMBDA n : n \in DOMAIN components)
    IN  [i \in 1..Len(names) |-> components[names[i]]]

\* AxieStudioComponentKB.get_compatible_components; component_name is not read
get_compatible_components(component_name, output_type) ==
    SelectSeq(ComponentValues,
              LAMBDA comp : \E k \in 1..Len(comp.inputs) : comp.inputs[k].type = output_type)

\* the output types a caller asks about
QueryTypes == {"Message", "message", "str", "Tool", "Retriever"}

\* a caller of get_compatible_components
GetCompatibleComponents ==
    /\ pc = "idle"
    /\ \E name \in DOMAIN components, output_type \in QueryTypes :
          compatible' = [output_type |-> output_type,
                         result |-> get_compatible_components(name, output_type)]
    /\ pc' = "queried"
    /\ UNCHANGED <<ext, structure, indexed, components, requirement, flow, intent>>

\* AIFlowGenerator._fallback_flow_structure: three fixed nodes, two fixed edges
fallback_flow_structure ==
    [nodes |-> <<"input-1", "model-1", "output-1">>, edges |-> <<"e1", "e2">>]

\* dict.get(key, default)
Get(dict, key, default) == IF key \in DOMAIN dict THEN dict[key] ELSE default

\* AIFlowGenerator._create_flow_json
create_flow_json(flow_structure, user_description) ==
    [data |-> Get(flow_structure, "data",
                  [edges |-> Get(flow_structure, "edges", << >>),
                   nodes |-> Get(flow_structure, "nodes", << >>),
                   viewport |-> DefaultViewport]),
     description |-> "AI-generated flow: " \o user_description,
     name |-> "AI Flow - " \o Prefix50(user_description) \o "..."]

\* What _generate_flow_structure_with_ai hands to _create_flow_json: the
\* fallback structure, or whatever JSON value the oracle replied
FlowStructures ==
    { [kind |-> "object", value |-> fallback_flow_structure],
      [kind |-> "object", value |-> [nodes |-> <<"a", "b">>, edges |-> <<"a-b">>]],
      [kind |-> "object", value |-> [nodes |-> <<"a", "b">>]],
      [kind |-> "object", value |-> [n \in {} |-> 0]],
      [kind |-> "object",
       value |-> [data |-> [nodes |-> <<"a", "b">>, edges |-> <<"a-b">>,
                            viewport |-> DefaultViewport]]],
      [kind |-> "object",
       value |-> [data |-> [nodes |-> <<"a", "b">>, edges |-> <<"a-b">>,
                            viewport |-> [x |-> 250, y |-> 40, zoom |-> 2]]]],
      [kind |-> "object", value |-> [data |-> [nodes |-> <<"a", "b">>]]],
      [kind |-> "array"] }

\* AIFlowGenerator.generate_flow_with_ai from the flow structure on: a reply
\* that is no object has no get and the call raises
CreateFlowJson ==
    /\ pc = "idle"
    /\ \E st \in FlowStructures :
          /\ structure' = st
          /\ IF st.kind = "object"
             THEN /\ flow' = create_flow_json(st.value, "hello").data
                  /\ pc' = "assembled"
             ELSE /\ flow' = EmptyFlow
                  /\ pc' = "failed"
    /\ UNCHANGED <<ext, compatible, indexed, components, requirement, intent>>

\* the caller takes the result (or the exception) and is ready for a new request
NextRequest ==
    /\ pc # "idle"
    /\ pc' = "idle"
    /\ requirement' = << >>
    /\ flow' = EmptyFlow
    /\ intent' = NoIntent
    /\ compatible' = NoQuery
    /\ structure' = NoStructure
    /\ UNCHANGED <<ext, indexed, components>>

\* a caller asks for a flow: any component list, any outcome of uuid4
GenerateFlow ==
    /\ pc = "idle"
    /\ \E names \in ComponentLists :
         \E short_ids \in [1..Len(ResolvedIndices(names)) -> ShortIds] :
            generate_flow_json(names, short_ids)

Next ==
    \/ GenerateFlow
    \/ SuperFallback
    \/ AIFallback
    \/ AnalyzeUserIntent
    \/ GetCompatibleComponents
    \/ CreateFlowJson
    \/ NextRequest

Spec == Init /\ [][Next]_vars

---------------------------------------------------------------------------
(* The generation service: FlowGenerationService.generate_flow over        *)
(* SuperAIFlowGenerator.generate_flow_super_fast and the template generator *)

\* FlowGenerator._load_flow_templates: the "components" of each flow type
flow_templates ==
    ("basic_chat" :> <<"ChatInput", "OpenAIModel", "ChatOutput">>) @@
    ("document_qa" :> <<"ChatInput", "FileComponent", "TextSplitter", "OpenAIEmbeddings",
                        "ChromaDB", "OpenAIModel", "ChatOutput">>) @@
    ("agent_tools" :> <<"ChatInput", "Agent", "OpenAIModel", "CalculatorComponent",
                        "WebSearchTool", "ChatOutput">>) @@
    ("rag_system" :> <<"FileComponent", "TextSplitter", "OpenAIEmbeddings", "ChromaDB",
                       "ChatInput", "OpenAIModel", "ChatOutput">>)

\* SuperAIFlowGenerator.component_selection_rules
component_selection_rules ==
    ("basic_chat" :> <<"ChatInput", "OpenAIModel", "ChatOutput">>) @@
    ("document_qa" :> <<"ChatInput", "FileComponent", "TextSplitter", "OpenAIEmbeddings",
                        "ChromaDB", "OpenAIModel", "ChatOutput">>) @@
    ("agent_tools" :> <<"ChatInput", "Agent", "OpenAIModel", "WebSearchTool", "ChatOutput">>) @@
    ("rag_system" :> <<"FileComponent", "TextSplitter", "OpenAIEmbeddings", "ChromaDB",
                       "ChatInput", "OpenAIModel", "ChatOutput">>)

\* AIKnowledgeProcessor._create_selection_rules
processor_selection_rules ==
    component_selection_rules @@
    ("data_processing" :> <<"FileComponent", "DataProcessor", "TextSplitter",
                            "OutputComponent">>)

\* AIKnowledgeProcessor.get_components_for_use_case
get_components_for_use_case(use_case) ==
    IF use_case \in DOMAIN processor_selection_rules
    THEN processor_selection_rules[use_case] ELSE << >>

\* TemplateFlowGenerator._select_template
select_template(use_case) ==
    CASE use_case = "basic_chat"  -> "Basic Prompting"
      [] use_case = "document_qa" -> "Document Q&A"
      [] use_case = "agent_tools" -> "Simple Agent"
      [] use_case = "rag_system"  -> "Vector Store RAG"
      [] use_case = "blog_writer" -> "Blog Writer"
      [] use_case = "research"    -> "Research Agent"
      [] use_case = "memory_chat" -> "Memory Chatbot"
      [] OTHER                    -> "Basic Prompting"

\* TemplateFlowGenerator._create_minimal_flow
create_minimal_flow(user_description) ==
    [name |-> "AI Flow - " \o Prefix50(user_description) \o "...",
     description |-> "AI generated flow: " \o user_description,
     nodes |-> << >>, edges |-> << >>,
     metadata |-> [generated_by |-> "AxieStudio AI Flow Generator (Minimal)",
                   template_used |-> << >>]]

\* TemplateFlowGenerator.generate_flow: a customised copy of a stored template
generate_flow(user_description, use_case) ==
    LET wanted == select_template(use_case)
        template_name == IF wanted \in DOMAIN templates THEN wanted ELSE "Basic Prompting"
    IN  IF template_name \notin DOMAIN templates
        THEN create_minimal_flow(user_description)
        ELSE LET template == templates[template_name]
             IN  [name |-> "AI Flow - " \o Prefix50(user_description) \o "...",
                  description |-> "AI generated flow: " \o user_description,
                  nodes |-> template.nodes, edges |-> template.edges,
                  metadata |->
                      IF template.has_metadata
                      THEN [generated_by |-> "AxieStudio AI Flow Generator",
                            template_used |-> << >>]
                      ELSE [generated_by |-> "AxieStudio AI Flow Generator",
                            template_used |-> << template_name >>]]

\* what chat.completions.create can do on the intent prompt: raise, or return
\* a content that is no JSON, or JSON of some kind
UseCaseLabels ==
    {"basic_chat", "document_qa", "agent_tools", "rag_system", "data_processing", "xyz"}

IntentReplies ==
    {"exception", "malformed", "array", "string", "object_without_use_case"}
        \cup UseCaseLabels

\* SuperAIFlowGenerator._analyze_intent_super_fast, given the oracle's reply
analyze_intent_super_fast(user_description, reply) ==
    IF reply \in {"exception", "malformed"}
    THEN JsonValue("object",
                   << super_fallback_intent_analysis(user_description).primary_use_case >>,
                   "fallback")
    ELSE IF reply \in {"array", "string"} THEN JsonValue(reply, << >>, "oracle")
    ELSE IF reply = "object_without_use_case" THEN JsonValue("object", << >>, "oracle")
    ELSE JsonValue("object", << reply >>, "oracle")

\* intent.get('primary_use_case', default) on an object
GetUseCase(intent_value, default) ==
    IF intent_value.use_case = << >> THEN default ELSE intent_value.use_case[1]

\* what the oracle can reply to the selection prompt
OracleLists ==
    { << >>, <<"ChatInput", "OpenAIModel", "ChatOutput">>,
      <<"ChatInput", "VectorSearchX", "ChatOutput">>, <<"VectorSearchX">> }

SelectReplies ==
    {[kind |-> k, items |-> << >>] : k \in {"exception", "malformed", "object"}}
        \cup {[kind |-> "array", items |-> l] : l \in OracleLists}

\* the try block of _select_components_super_fast, given the oracle's reply
select_components_from_reply(reply) ==
    IF reply.kind \in {"exception", "malformed"}
    THEN component_selection_rules["basic_chat"]
    ELSE IF reply.kind = "array" THEN reply.items
    ELSE << >>

\* the dict FlowGenerationService.generate_flow returns around flow_data
ServiceSuccess(flow_data) ==
    [success |-> TRUE, raised |-> FALSE, error |-> "", flow_data |-> << flow_data >>,
     components_count |-> Len(flow_data.nodes),
     template_used |-> IF flow_data.metadata.template_used = << >> THEN "Unknown"
                       ELSE flow_data.metadata.template_used[1]]

\* the except branch of FlowGenerationService.generate_flow
ServiceFailure(error) ==
    [success |-> FALSE, raised |-> TRUE, error |-> error, flow_data |-> << >>,
     components_count |-> 0, template_used |-> ""]

ServiceDescriptions == Phrases

\* generate_flow(description, use_ai=True) up to the request of the intent prompt
ServiceGenerateWithAI ==
    /\ pc = "idle"
    /\ \E d \in ServiceDescriptions :
         super' = [NoCall EXCEPT !.description = d, !.use_ai = TRUE]
    /\ pc' = "intent_call"
    /\ UNCHANGED <<indexed, components, requirement, flow, intent, first, templates, calls, conv, extr>>

\* the intent prompt is answered: generate_flow_super_fast runs on, to its
\* return, to an exception, or to the request of the selection prompt
IntentOracleReturns ==
    /\ pc = "intent_call"
    /\ \E reply \in IntentReplies :
         LET intent_value == analyze_intent_super_fast(super.description, reply)
             answered == [super EXCEPT !.intent_reply = reply, !.intent = intent_value]
             use_case == GetUseCase(intent_value, "basic_chat")
         IN  IF intent_value.json # "object"
             THEN /\ super' = [answered EXCEPT !.outcome =
                                  ServiceFailure("object has no attribute 'get'")]
                  /\ pc' = "done"
             ELSE IF use_case \in DOMAIN component_selection_rules
             THEN /\ super' = [answered EXCEPT
                                  !.selected = component_selection_rules[use_case],
                                  !.outcome = ServiceSuccess(
                                      generate_flow(super.description, use_case))]
                  /\ pc' = "done"
             ELSE /\ super' = answered
                  /\ pc' = "select_call"
    /\ UNCHANGED <<indexed, components, requirement, flow, intent, first, templates, calls, conv, extr>>

\* the selection prompt is answered: generate_flow_super_fast runs to its return
SelectOracleReturns ==
    /\ pc = "select_call"
    /\ \E reply \in SelectReplies :
         super' = [super EXCEPT
                      !.select_reply = reply,
                      !.selected = select_components_from_reply(reply),
                      !.outcome = ServiceSuccess(
                          generate_flow(super.description,
                                        GetUseCase(super.intent, "basic_chat")))]
    /\ pc' = "done"
    /\ UNCHANGED <<indexed, components, requirement, flow, intent, first, templates, calls, conv, extr>>

\* generate_flow(description, flow_type, use_ai=False)
ServiceGenerateWithTemplates ==
    /\ pc = "idle"
    /\ \E d \in ServiceDescriptions : \E flow_type \in UseCaseLabels \cup {""} :
         super' = [NoCall EXCEPT
                      !.description = d,
                      !.intent = JsonValue("none", << flow_type >>, "caller"),
                      !.outcome = ServiceSuccess(
                          generate_flow(d, IF flow_type = "" THEN "basic_chat"
                                           ELSE flow_type))]
    /\ pc' = "done"
    /\ UNCHANGED <<indexed, components, requirement, flow, intent, first, templates, calls, conv, extr>>

\* the caller takes the service's result
ServiceNextRequest ==
    /\ pc = "done"
    /\ pc' = "idle"
    /\ super' = NoCall
    /\ UNCHANGED <<indexed, components, requirement, flow, intent, first, templates, calls, conv, extr>>

\* a starter project as the template generator and the service read it
Template(name, types, has_metadata) ==
    [name |-> name, description |-> "Starter project " \o name,
     nodes |-> [k \in 1..Len(types) |-> [id |-> types[k] \o "-tpl", type |-> types[k]]],
     edges |-> [k \in 1..(Len(types) - 1) |->
                  [source |-> types[k] \o "-tpl", target |-> types[k + 1] \o "-tpl"]],
     has_metadata |-> has_metadata]

BasicPrompting == Template("Basic Prompting", <<"ChatInput", "Prompt", "OpenAIModel",
                                                "ChatOutput">>, FALSE)

\* what the starter_projects directory can hold when the generator is built
TemplateStores ==
    { NoTemplates,
      "Basic Prompting" :> BasicPrompting,
      ("Basic Prompting" :> BasicPrompting) @@
      ("Document Q&A" :> Template("Document Q&A", <<"ChatInput", "File", "ParseData",
                                  "Prompt", "OpenAIModel", "ChatOutput">>, TRUE)) @@
      ("Simple Agent" :> Template("Simple Agent", <<"ChatInput", "Agent", "ChatOutput">>,
                                  FALSE)) @@
      ("Vector Store RAG" :> Template("Vector Store RAG", <<"ChatInput", "AstraDB",
                                      "OpenAIModel", "ChatOutput">>, FALSE)) }

InitService ==
    /\ indexed = NoIndex
    /\ components = load_indexed_components(initialize_components, indexed)
    /\ pc = "idle"
    /\ requirement = << >>
    /\ flow = EmptyFlow
    /\ intent = NoIntent
    /\ first = NoRun
    /\ templates \in TemplateStores
    /\ super = NoCall
    /\ compatible = NoQuery
    /\ structure = NoStructure
    /\ files = NoFiles
    /\ indexer = NoIndexer
    /\ crawler = NoCrawler
    /\ observed = NoObservation
    /\ flows = NoFlows
    /\ chat = NoChat

NextService ==
    \/ ServiceGenerateWithAI
    \/ IntentOracleReturns
    \/ SelectOracleReturns
    \/ ServiceGenerateWithTemplates
    \/ ServiceNextRequest

SpecService == InitService /\ [][NextService]_vars

\* the service's own steps are taken; nothing in the source bounds the time
\* chat.completions.create takes (no timeout argument, no wait_for)
SpecServiceLive == SpecService /\ WF_vars(ServiceNextRequest)

---------------------------------------------------------------------------
(* Two runs of the rule-based generation on one description:               *)
(* analyze_user_intent, then generate_flow_json, as test_flow_generation   *)
(* does for each row of its table                                          *)

\* the rows of the table whose component list is short enough to run twice
TestDescriptions ==
    {t \in DOMAIN ExpectedType : Len(analyze_user_intent(t).components_needed) <= MaxRunLen}

NodeIds(nodes) == [k \in 1..Len(nodes) |-> nodes[k].id]

\* requirement = analyze_user_intent(text); flow_json = generate_flow_json(requirement)
RuleBasedGeneration(text, short_ids) ==
    LET r == analyze_user_intent(text)
        result == NodeLoop(r.components_needed,
                           calculate_node_positions(r.components_needed),
                           short_ids, 1, << >>)
    IN  /\ intent' = [by |-> "rules", text |-> text, label |-> r.flow_type,
                      components |-> r.components_needed]
        /\ requirement' = r.components_needed
        /\ flow' = IF result.raised THEN EmptyFlow
                   ELSE [edges |-> create_edges(result.nodes), nodes |-> result.nodes,
                         viewport |-> DefaultViewport]

FirstRun ==
    /\ pc = "idle"
    /\ \E text \in TestDescriptions :
         \E short_ids \in [1..Len(ResolvedIndices(analyze_user_intent(text).components_needed))
                              -> ShortIds] :
            RuleBasedGeneration(text, short_ids)
    /\ pc' = "returned"
    /\ UNCHANGED <<indexed, components, first, svc, calls, conv, extr>>

\* the same description again: uuid4 is drawn afresh for every node
SecondRun ==
    /\ pc = "returned"
    /\ first = NoRun
    /\ first' = [label |-> intent.label, node_ids |-> NodeIds(flow.nodes),
                 edges |-> flow.edges]
    /\ \E short_ids \in [1..Len(ResolvedIndices(requirement)) -> ShortIds] :
         RuleBasedGeneration(intent.text, short_ids)
    /\ pc' = "repeated"
    /\ UNCHANGED <<indexed, components, svc, calls, conv, extr>>

NextRuns == FirstRun \/ SecondRun

SpecRuns == Init /\ [][NextRuns]_vars

---------------------------------------------------------------------------
(* RealAxieStudioAIChat: the conversational generator and its example flows *)

\* RealAxieStudioCrawler._flow_to_dict, the fields the chat reads or writes
StoredFlow(name, description, components_used) ==
    [name |-> name, description |-> description, components_used |-> components_used]

\* flow_mapping of _select_best_template_flow
flow_mapping ==
    ("chat" :> "Basic Prompting") @@ ("rag" :> "Vector Store RAG") @@
    ("agent" :> "Simple Agent") @@ ("data_processing" :> "Document Q&A")

\* the order of axiestudio_data['flows']: the order the files were crawled in
FlowOrder ==
    <<"Basic Prompting", "Vector Store RAG", "Simple Agent", "Document Q&A",
      "Memory Chatbot">>

\* RealAxieStudioAIChat._select_best_template_flow: the key of the stored
\* flow it returns, "" for None
select_best_template_flow(flow_type) ==
    IF flow_type \in DOMAIN flow_mapping /\ flow_mapping[flow_type] \in DOMAIN flows
    THEN flow_mapping[flow_type]
    ELSE LET stored == SelectSeq(FlowOrder, LAMBDA n : n \in DOMAIN flows)
         IN  IF stored # << >> THEN stored[1] ELSE ""

\* what the oracle answers to the intent prompt of the chat
ChatIntentReplies ==
    { [kind |-> "exception", wants_flow |-> FALSE, flow_type |-> ""],
      [kind |-> "array", wants_flow |-> FALSE, flow_type |-> ""] } \cup
    { [kind |-> "object", wants_flow |-> w, flow_type |-> t] :
        w \in BOOLEAN, t \in DOMAIN flow_mapping \cup {"other"} }

\* RealAxieStudioAIChat._analyze_user_intent
chat_analyze_user_intent(message, reply) ==
    IF reply.kind = "exception"
    THEN [kind |-> "object",
          wants_flow |-> Contains("create", Lower(message)) \/ Contains("build", Lower(message)),
          flow_type |-> "chat"]
    ELSE reply

\* RealAxieStudioAIChat._create_minimal_real_flow
create_minimal_real_flow(user_message) ==
    [name |-> "AI Generated: " \o Prefix50(user_message) \o "...",
     description |-> "Generated flow for: " \o user_message,
     template_used |-> "", fallback_flow |-> TRUE]

\* what the oracle answers to the customization prompt
CustomizeReplies == {"exception", "malformed", "array", "object"}

\* the messages of the user
ChatMessages ==
    {"Build an AI agent that can search the web and do calculations", "hello"}

\* RealAxieStudioAIChat.chat, up to the intent prompt
Chat ==
    /\ pc = "idle"
    /\ \E message \in ChatMessages : chat' = [NoChat EXCEPT !.message = message]
    /\ pc' = "chat_intent_call"
    /\ UNCHANGED <<indexed, components, requirement, flow, intent, first, svc, calls, flows, extr>>

\* chat after the intent prompt: _analyze_user_intent returns, then
\* _provide_conversational_response or _generate_flow_with_chat up to the
\* customization prompt (_generate_chat_response writes no state)
ChatIntentReturns ==
    /\ pc = "chat_intent_call"
    /\ \E reply \in ChatIntentReplies :
          LET i == chat_analyze_user_intent(chat.message, reply)
              template == select_best_template_flow(i.flow_type)
          IN  IF i.kind # "object"
              THEN /\ chat' = [chat EXCEPT !.raised = TRUE]
                   /\ pc' = "done"
              ELSE IF ~i.wants_flow
              THEN /\ chat' = [chat EXCEPT !.flow_type = i.flow_type]
                   /\ pc' = "done"
              ELSE IF template = ""
              THEN /\ chat' = [chat EXCEPT !.wants_flow = TRUE, !.flow_type = i.flow_type,
                                           !.flow = create_minimal_real_flow(chat.message)]
                   /\ pc' = "done"
              ELSE /\ chat' = [chat EXCEPT !.wants_flow = TRUE, !.flow_type = i.flow_type,
                                           !.template = template]
                   /\ pc' = "customize_call"
    /\ UNCHANGED <<indexed, components, requirement, flow, intent, first, svc, calls, flows, extr>>

\* RealAxieStudioAIChat._customize_flow_with_ai after the customization
\* prompt: an object is returned with its metadata, anything else ends in
\* the except branch, which writes into template_flow, the stored record
CustomizeReturns ==
    /\ pc = "customize_call"
    /\ \E reply \in CustomizeReplies :
          LET template_flow == flows[chat.template]
              name == "AI Generated: " \o Prefix50(chat.message) \o "..."
              description == "Generated flow for: " \o chat.message
          IN  IF reply = "object"
              THEN /\ chat' = [chat EXCEPT !.flow =
                                  [name |-> "customized", description |-> "customized",
                                   template_used |-> template_flow.name,
                                   fallback_flow |-> FALSE]]
                   /\ flows' = flows
              ELSE /\ flows' = [flows EXCEPT ![chat.template] =
                                  [@ EXCEPT !.name = name, !.description = description]]
                   /\ chat' = [chat EXCEPT !.flow =
                                  [name |-> name, description |-> description,
                                   template_used |-> "", fallback_flow |-> FALSE]]
    /\ pc' = "done"
    /\ UNCHANGED <<indexed, components, requirement, flow, intent, first, svc, calls, extr>>

\* chat returns; the caller is ready for the next message
ChatNextRequest ==
    /\ pc = "done"
    /\ pc' = "idle"
    /\ chat' = NoChat
    /\ UNCHANGED <<indexed, components, requirement, flow, intent, first, svc, calls, flows, extr>>

\* What real_axiestudio_crawler.crawl_all()['flows'] can hold, by the flow
\* files on disk: nothing; one flow no intent maps to; the four mapped flows
FlowStores ==
    { NoFlows,
      "Memory Chatbot" :> StoredFlow("Memory Chatbot", "Chat with memory",
                                     <<"ChatInput", "Memory", "ChatOutput">>),
      ("Basic Prompting" :> StoredFlow("Basic Prompting", "Perform basic prompting",
                                       <<"ChatInput", "Prompt", "ChatOutput">>)) @@
      ("Vector Store RAG" :> StoredFlow("Vector Store RAG", "Load data for chat context",
                                        <<"ChatInput", "AstraDB", "ChatOutput">>)) @@
      ("Simple Agent" :> StoredFlow("Simple Agent", "A simple agent with tools",
                                    <<"ChatInput", "Agent", "ChatOutput">>)) @@
      ("Document Q&A" :> StoredFlow("Document Q&A", "Question answering on documents",
                                    <<"ChatInput", "File", "ChatOutput">>)) }

\* RealAxieStudioAIChat.__init__
InitChat ==
    /\ indexed = NoIndex
    /\ components = load_indexed_components(initialize_components, indexed)
    /\ pc = "idle"
    /\ requirement = << >>
    /\ flow = EmptyFlow
    /\ intent = NoIntent
    /\ first = NoRun
    /\ templates = NoTemplates
    /\ super = NoCall
    /\ compatible = NoQuery
    /\ structure = NoStructure
    /\ files = NoFiles
    /\ indexer = NoIndexer
    /\ crawler = NoCrawler
    /\ observed = NoObservation
    /\ flows \in FlowStores
    /\ chat = NoChat

NextChat ==
    \/ Chat
    \/ ChatIntentReturns
    \/ CustomizeReturns
    \/ ChatNextRequest

SpecChat == InitChat /\ [][NextChat]_vars

---------------------------------------------------------------------------
(* FlowIndexer: the static extractor over component files and starter      *)
(* projects, and the merge of its records into the knowledge base          *)

\* The statements of a component file the patterns of the extractor match:
\* `name: type = type(`, `name = type(`, `return type(`, `self.status = type`
Annotated(name, type) == [kind |-> "annotated", name |-> name, type |-> type]
Assigned(name, type) == [kind |-> "assigned", name |-> name, type |-> type]
Returns(type) == [kind |-> "return", name |-> "", type |-> type]
Status(type) == [kind |-> "status", name |-> "", type |-> type]

ClassDef(name, base) == [name |-> name, base |-> base]

\* a component file: status is "ok", "unreadable" (open raises) or
\* "syntax_error" (ast.parse raises); under_cwd tells whether its path lies
\* under the working directory of the process
ComponentFile(path, category, status, classes, display_name, statements, under_cwd) ==
    [path |-> path, category |-> category, status |-> status, classes |-> classes,
     display_name |-> display_name, required |-> FALSE, statements |-> statements,
     under_cwd |-> under_cwd]

EndsWith(s, suffix) ==
    Len(s) >= Len(suffix) /\ SubSeq(s, Len(s) - Len(suffix) + 1, Len(s)) = suffix

\* the text matches \w+Input
IsInputType(type) == Len(type) > 5 /\ EndsWith(type, "Input")

RECURSIVE FlatMap(_, _)
FlatMap(Op(_), seq) ==
    IF seq = << >> THEN << >> ELSE Op(Head(seq)) \o FlatMap(Op, Tail(seq))

\* FlowIndexer._extract_inputs: every match of the first pattern, then every
\* match of the second; the second also matches `type = type(` inside an
\* annotated declaration
extract_inputs(content) ==
    LET slot(n, t) == [name |-> n, type |-> t, required |-> content.required]
        first_pattern(st) ==
            IF st.kind = "annotated" /\ IsInputType(st.type)
            THEN << slot(st.name, st.type) >> ELSE << >>
        second_pattern(st) ==
            IF st.kind = "annotated" /\ IsInputType(st.type)
            THEN << slot(st.type, st.type) >>
            ELSE IF st.kind = "assigned" /\ IsInputType(st.type)
            THEN << slot(st.name, st.type) >> ELSE << >>
    IN  FlatMap(first_pattern, content.statements)
            \o FlatMap(second_pattern, content.statements)

\* FlowIndexer._extract_outputs: the return pattern, then the status pattern
extract_outputs(content) ==
    LET out(st, kind) ==
            IF st.kind = kind /\ st.type \notin {"self", "super"}
            THEN << [name |-> "output", type |-> st.type] >> ELSE << >>
        return_pattern(st) == out(st, "return")
        status_pattern(st) == out(st, "status")
    IN  FlatMap(return_pattern, content.statements)
            \o FlatMap(status_pattern, content.statements)

\* re.sub(r'([A-Z])', r' \1', class_name)
RECURSIVE SpaceCapitals(_)
SpaceCapitals(s) ==
    IF s = "" THEN ""
    ELSE LET c == SubSeq(s, 1, 1)
         IN  (IF c \in DOMAIN LowerMap THEN " " \o c ELSE c)
                 \o SpaceCapitals(SubSeq(s, 2, Len(s)))

\* FlowIndexer._extract_display_name; a class name holds no blank, so strip()
\* removes at most the leading one
extract_display_name(content, class_name) ==
    IF content.display_name # "" THEN content.display_name
    ELSE LET spaced == SpaceCapitals(class_name)
         IN  IF StartsWith(spaced, " ") THEN SubSeq(spaced, 2, Len(spaced)) ELSE spaced

\* FlowIndexer._analyze_component_file: None as the empty sequence
analyze_component_file(file, category) ==
    IF file.status # "ok" THEN << >>
    ELSE LET component_classes ==
                 SelectSeq(file.classes, LAMBDA c : Contains("Component", c.base))
         IN  IF component_classes = << >> THEN << >>
             ELSE LET class_name == component_classes[1].name
                  IN  << [name |-> class_name, class_name |-> class_name,
                          display_name |-> extract_display_name(file, class_name),
                          category |-> category,
                          inputs |-> extract_inputs(file),
                          outputs |-> extract_outputs(file)] >>

\* self.components[component_info.name] = component_info
Put(table, key, value) ==
    [k \in DOMAIN table \cup {key} |-> IF k = key THEN value ELSE table[k]]

\* a starter project: status "ok", "unreadable" or "malformed" (json.load raises)
FlowFile(path, status, name, description, nodes, edges) ==
    [path |-> path, status |-> status, name |-> name, description |-> description,
     nodes |-> nodes, edges |-> edges]

\* FlowIndexer._determine_flow_type
determine_flow_type(node_types, description) ==
    LET desc_lower == Lower(description)
    IN  IF \E k \in 1..Len(node_types) : Contains("Agent", node_types[k])
        THEN "agent_workflow"
        ELSE IF \E k \in 1..Len(node_types) :
                   Contains("Embedding", node_types[k]) \/ Contains("Vector", node_types[k])
        THEN "rag_system"
        ELSE IF Contains("document", desc_lower) \/ Contains("pdf", desc_lower)
        THEN "document_qa"
        ELSE IF Contains("chat", desc_lower) THEN "basic_chat"
        ELSE "general_workflow"

\* FlowIndexer._determine_complexity
determine_complexity(node_types, connections) ==
    LET comp_count == Len(node_types)
        conn_count == Len(connections)
    IN  IF comp_count <= 3 /\ conn_count <= 2 THEN "simple"
        ELSE IF comp_count <= 7 /\ conn_count <= 6 THEN "medium"
        ELSE "complex"

\* FlowIndexer._analyze_flow_file: None as the empty sequence; the component
\* list holds node['type'] of the nodes that carry the key
analyze_flow_file(file) ==
    IF file.status # "ok" THEN << >>
    ELSE LET typed == SelectSeq(file.nodes, LAMBDA node : node.has_type)
             node_types == [k \in 1..Len(typed) |-> typed[k].type]
         IN  << [name |-> file.name, description |-> file.description,
                 flow_type |-> determine_flow_type(node_types, file.description),
                 components |-> node_types, connections |-> file.edges,
                 complexity |-> determine_complexity(node_types, file.edges),
                 json_structure |-> [nodes |-> file.nodes, edges |-> file.edges]] >>

\* FlowIndexer._index_components, one file of the loop
IndexComponentFile ==
    /\ pc = "indexing"
    /\ indexer.position < Len(files.component_files)
    /\ LET file == files.component_files[indexer.position + 1]
           component_info == analyze_component_file(file, file.category)
       IN  indexed' = IF component_info = << >> THEN indexed
                      ELSE Put(indexed, component_info[1].name, component_info[1])
    /\ indexer' = [indexer EXCEPT !.position = @ + 1]
    /\ UNCHANGED <<components, pc, requirement, flow, intent, first, svc, calls, conv,
                   files, crawler, observed>>

\* FlowIndexer._index_starter_projects, one file of the loop
IndexStarterProject ==
    /\ pc = "indexing"
    /\ indexer.position >= Len(files.component_files)
    /\ indexer.position < Len(files.component_files) + Len(files.flow_files)
    /\ LET file == files.flow_files[indexer.position - Len(files.component_files) + 1]
           flow_info == analyze_flow_file(file)
       IN  indexer' = [indexer EXCEPT
                         !.position = @ + 1,
                         !.flows = IF flow_info = << >> THEN @
                                   ELSE Put(@, flow_info[1].name, flow_info[1])]
    /\ UNCHANGED <<indexed, components, pc, requirement, flow, intent, first, svc, calls,
                   conv, files, crawler, observed>>

\* AxieStudioComponentKB.__init__ once flow_indexer is built
LoadIndexedComponents ==
    /\ pc = "indexing"
    /\ indexer.position = Len(files.component_files) + Len(files.flow_files)
    /\ components' = load_indexed_components(initialize_components, indexed)
    /\ indexer' = [indexer EXCEPT !.loaded = TRUE]
    /\ pc' = "loaded"
    /\ UNCHANGED <<indexed, requirement, flow, intent, first, svc, calls, conv,
                   files, crawler, observed>>

\* AxieStudioComponentKB.__init__ when `from .flow_indexer import flow_indexer`
\* raises: the except branch keeps the hand-authored records
LoadIndexedComponentsFails ==
    /\ pc = "indexing"
    /\ components' = initialize_components
    /\ pc' = "loaded"
    /\ UNCHANGED <<indexed, requirement, flow, intent, first, svc, calls, conv,
                   files, indexer, crawler, observed>>

\* the component files that can lie on disk
FilePool ==
    { ComponentFile("models/language_model.py", "MODELS", "ok",
                    << ClassDef("LanguageModel", "Component") >>, "",
                    << Assigned("input_value", "MessageTextInput"), Returns("Message") >>,
                    TRUE),
      ComponentFile("input_output/chat.py", "INPUT_OUTPUT", "ok",
                    << ClassDef("ChatInput", "ChatComponent"),
                       ClassDef("ChatOutput", "ChatComponent") >>, "Chat Input",
                    << Assigned("input_value", "MessageTextInput"),
                       Assigned("input_value", "MessageTextInput"), Status("message") >>,
                    TRUE),
      ComponentFile("tools/broken.py", "TOOLS", "syntax_error",
                    << ClassDef("WebSearchTool", "Component") >>, "", << >>, TRUE),
      ComponentFile("data/locked.py", "DATA", "unreadable",
                    << ClassDef("FileComponent", "Component") >>, "", << >>, TRUE),
      ComponentFile("helpers/utils.py", "HELPERS", "ok",
                    << ClassDef("Helper", "object") >>, "", << Returns("dict") >>, TRUE),
      ComponentFile("custom/prompt.py", "CUSTOM", "ok",
                    << ClassDef("PromptComponent", "Component") >>, "",
                    << Annotated("template", "StrInput"), Returns("super") >>, FALSE) }

\* the component files on disk, in the order the directory is listed
FileLists ==
    {fs \in UNION {[1..n -> FilePool] : n \in 0..MaxFiles} :
        \A i, j \in 1..Len(fs) : i # j => fs[i].path # fs[j].path}

\* a node of a flow file; id is node["data"]["id"], "" when absent
Node(id) == [has_type |-> TRUE, type |-> "genericNode", id |-> id]
TypedNode == Node("ChatInput-Ab12c")
UntypedNode == [has_type |-> FALSE, type |-> "", id |-> "note-1"]

\* the starter projects that can lie on disk: any number of nodes carrying
\* 'type', at most one node without it, any number of edges
FlowPool ==
    { FlowFile("starter_projects/basic.json", "ok", "Basic Prompting",
               "Perform basic prompting", [k \in 1..(t + u) |-> IF k <= t THEN TypedNode
                                                                ELSE UntypedNode],
               [k \in 1..e |-> k]) :
        t \in 0..MaxNodes, u \in 0..1, e \in 0..MaxEdges } \cup
    { FlowFile("starter_projects/broken.json", "malformed", "", "", << >>, << >>),
      FlowFile("starter_projects/locked.json", "unreadable", "", "", << >>, << >>) }

\* FlowIndexer.__init__ at the start of _index_all
InitIndex ==
    /\ indexed = NoIndex
    /\ components = NoIndex
    /\ pc = "indexing"
    /\ requirement = << >>
    /\ flow = EmptyFlow
    /\ intent = NoIntent
    /\ first = NoRun
    /\ templates = NoTemplates
    /\ super = NoCall
    /\ compatible = NoQuery
    /\ structure = NoStructure
    /\ \/ \E fs \in FileLists : files = [component_files |-> fs, flow_files |-> << >>]
       \/ \E fs \in FileLists, f \in FlowPool :
             /\ Len(fs) <= 1
             /\ files = [component_files |-> fs, flow_files |-> << f >>]
    /\ indexer = NoIndexer
    /\ crawler = NoCrawler
    /\ observed = NoObservation
    /\ flows = NoFlows
    /\ chat = NoChat

NextIndex ==
    \/ IndexComponentFile
    \/ IndexStarterProject
    \/ LoadIndexedComponents
    \/ LoadIndexedComponentsFails

SpecIndex == InitIndex /\ [][NextIndex]_vars

---------------------------------------------------------------------------
(* RealAxieStudioCrawler: crawl_all over the artifact set, file by file *)

\* RealAxieStudioCrawler._is_axiestudio_component: a pattern occurs in the text
is_axiestudio_component(content) ==
    \/ content.display_name # ""
    \/ \E k \in 1..Len(content.classes) :
          Contains("Component", content.classes[k].name)
              \/ Contains("Component", content.classes[k].base)

\* RealAxieStudioCrawler._extract_component_info for one class: None (the empty
\* sequence) when the text shows no pattern, or when _get_module_path raises
\* because the file does not lie under the working directory
extract_component_info(class_node, content) ==
    IF ~is_axiestudio_component(content) \/ ~content.under_cwd THEN << >>
    ELSE << [name |-> class_node.name,
             display_name |-> IF content.display_name # "" THEN content.display_name
                              ELSE class_node.name,
             base_classes |-> << class_node.base >>,
             file_path |-> content.path] >>

RECURSIVE PutAll(_, _)
PutAll(table, records) ==
    IF records = << >> THEN table
    ELSE PutAll(Put(table, Head(records).name, Head(records)), Tail(records))

\* RealAxieStudioCrawler._analyze_component_file: one record per class
crawl_component_file(table, file) ==
    IF file.status # "ok" THEN table
    ELSE LET info(class_node) == extract_component_info(class_node, file)
         IN  PutAll(table, FlatMap(info, file.classes))

RECURSIVE crawl_components(_, _)
\* RealAxieStudioCrawler._crawl_components over the files from the first on
crawl_components(table, component_files) ==
    IF component_files = << >> THEN table
    ELSE crawl_components(crawl_component_file(table, Head(component_files)),
                          Tail(component_files))

\* node_id.split("-")[0]
BeforeDash(id) ==
    LET dashes == {i \in 1..Len(id) : SubSeq(id, i, i) = "-"}
    IN  IF dashes = {} THEN id
        ELSE SubSeq(id, 1, (CHOOSE i \in dashes : \A j \in dashes : i <= j) - 1)

\* RealAxieStudioCrawler._extract_flow_info: None as the empty sequence
extract_flow_info(file) ==
    IF file.status # "ok" THEN << >>
    ELSE << [name |-> file.name, description |-> file.description,
             nodes |-> file.nodes, edges |-> file.edges,
             components_used |-> {BeforeDash(file.nodes[k].id) :
                                    k \in {i \in 1..Len(file.nodes) : file.nodes[i].id # ""}}] >>

\* self.flows[flow_info.name] = flow_info: a known key keeps its place
PutFlow(flow_list, info) ==
    IF \E k \in 1..Len(flow_list) : flow_list[k].name = info.name
    THEN [k \in 1..Len(flow_list) |->
            IF flow_list[k].name = info.name THEN info ELSE flow_list[k]]
    ELSE Append(flow_list, info)

\* RealAxieStudioCrawler._analyze_flow_file
crawl_flow_file(flow_list, file) ==
    LET info == extract_flow_info(file)
    IN  IF info = << >> THEN flow_list ELSE PutFlow(flow_list, info[1])

RECURSIVE crawl_flows(_, _)
\* RealAxieStudioCrawler._crawl_flows over the files from the first on
crawl_flows(flow_list, flow_files) ==
    IF flow_files = << >> THEN flow_list
    ELSE crawl_flows(crawl_flow_file(flow_list, Head(flow_files)), Tail(flow_files))

\* list(flow.components_used): the names in the iteration order of the process
ListOfSet(names, hash_order) == SelectSeq(hash_order, LAMBDA n : n \in names)

\* the body of the inner loop, appending without the membership test
add_relationship_always(relationships, comp1, comp2) ==
    LET r == IF comp1 \in DOMAIN relationships THEN relationships
             ELSE Put(relationships, comp1, << >>)
    IN  [r EXCEPT ![comp1] = Append(@, comp2)]

\* the body of the inner loop of _analyze_component_relationships
add_relationship(relationships, comp1, comp2) ==
    LET r == IF comp1 \in DOMAIN relationships THEN relationships
             ELSE Put(relationships, comp1, << >>)
    IN  IF \E k \in 1..Len(r[comp1]) : r[comp1][k] = comp2 THEN r
        ELSE [r EXCEPT ![comp1] = Append(@, comp2)]

\* for i, comp1 in enumerate(components): for comp2 in components[i+1:]
RECURSIVE RelatePairs(_, _, _, _)
RelatePairs(relationships, comps, i, j) ==
    IF i > Len(comps) THEN relationships
    ELSE IF j > Len(comps) THEN RelatePairs(relationships, comps, i + 1, i + 2)
    ELSE RelatePairs(add_relationship(relationships, comps[i], comps[j]), comps, i, j + 1)

RECURSIVE analyze_component_relationships(_, _, _)
\* RealAxieStudioCrawler._analyze_component_relationships
analyze_component_relationships(relationships, flow_list, hash_order) ==
    IF flow_list = << >> THEN relationships
    ELSE analyze_component_relationships(
             RelatePairs(relationships,
                         ListOfSet(Head(flow_list).components_used, hash_order), 1, 2),
             Tail(flow_list), hash_order)

\* the three tables of the crawler
Tables == [components |-> crawler.components, flows |-> crawler.flows,
           component_relationships |-> crawler.component_relationships]

\* what one whole crawl_all makes of the tables it starts with
crawl_all(tables, artifact_set, hash_order) ==
    LET flow_list == crawl_flows(tables.flows, artifact_set.flow_files)
    IN  [components |-> crawl_components(tables.components, artifact_set.component_files),
         flows |-> flow_list,
         component_relationships |->
             analyze_component_relationships(tables.component_relationships,
                                             flow_list, hash_order)]

\* crawl_all is called
CrawlAll ==
    /\ pc \in {"idle", "crawled"}
    /\ crawler.crawls < MaxCrawls
    /\ crawler' = [crawler EXCEPT !.position = 0, !.before = Tables, !.changed = FALSE,
                                  !.repeat = crawler.crawls >= 1 /\ ~crawler.changed,
                                  !.last = IF pc = "crawled" THEN Tables ELSE @]
    /\ pc' = "crawling"
    /\ observed' = NoObservation
    /\ UNCHANGED <<indexed, components, requirement, flow, intent, first, svc, calls, conv,
                   files, indexer>>

\* _crawl_components, one file of the loop
CrawlComponentFile ==
    /\ pc = "crawling"
    /\ crawler.position < Len(files.component_files)
    /\ crawler' = [crawler EXCEPT
                     !.position = @ + 1,
                     !.components =
                         crawl_component_file(@, files.component_files[crawler.position + 1])]
    /\ observed' = NoObservation
    /\ UNCHANGED <<indexed, components, pc, requirement, flow, intent, first, svc, calls,
                   conv, files, indexer>>

\* _crawl_flows, one file of the loop
CrawlFlowFile ==
    /\ pc = "crawling"
    /\ crawler.position >= Len(files.component_files)
    /\ crawler.position < Len(files.component_files) + Len(files.flow_files)
    /\ crawler' = [crawler EXCEPT
                     !.position = @ + 1,
                     !.flows = crawl_flow_file(@, files.flow_files[
                                   crawler.position - Len(files.component_files) + 1])]
    /\ observed' = NoObservation
    /\ UNCHANGED <<indexed, components, pc, requirement, flow, intent, first, svc, calls,
                   conv, files, indexer>>

\* _analyze_component_relationships, the result dictionary, return
CrawlReturns ==
    /\ pc = "crawling"
    /\ crawler.position = Len(files.component_files) + Len(files.flow_files)
    /\ crawler' = [crawler EXCEPT
                     !.component_relationships =
                         analyze_component_relationships(@, crawler.flows, crawler.hash_order),
                     !.crawls = @ + 1]
    /\ pc' = "crawled"
    /\ observed' = NoObservation
    /\ UNCHANGED <<indexed, components, requirement, flow, intent, first, svc, calls, conv,
                   files, indexer>>

\* a reader of real_axiestudio_crawler.components in another thread while a
\* crawl runs; before and after are the complete tables of that crawl
Observe ==
    /\ pc = "crawling"
    /\ observed' =
          [seen |-> TRUE, components |-> crawler.components,
           before |-> crawler.before.components,
           after |-> crawl_components(crawler.before.components, files.component_files)]
    /\ observed # observed'
    /\ UNCHANGED <<indexed, components, pc, requirement, flow, intent, first, svc, calls,
                   conv, files, indexer, crawler>>

\* the component files the crawler can find, in the order rglob lists them
CrawlFilePool ==
    << ComponentFile("models/language_model.py", "MODELS", "ok",
                     << ClassDef("LanguageModel", "Component") >>, "", << >>, TRUE),
       ComponentFile("input_output/chat.py", "INPUT_OUTPUT", "ok",
                     << ClassDef("ChatInput", "ChatComponent"),
                        ClassDef("ChatOutput", "ChatComponent") >>, "Chat", << >>, TRUE),
       ComponentFile("tools/broken.py", "TOOLS", "syntax_error",
                     << ClassDef("WebSearchTool", "Component") >>, "", << >>, TRUE),
       ComponentFile("components/prompt.py", "PROMPTS", "ok",
                     << ClassDef("PromptComponent", "Component") >>, "", << >>, FALSE) >>

\* the flow files the crawler can find, in the order rglob lists them
CrawlFlowPool ==
    << FlowFile("starter_projects/basic.json", "ok", "Basic Prompting",
                "Perform basic prompting",
                << Node("ChatInput-Ab12c"), Node("OpenAIModel-x9Kq2"),
                   Node("ChatOutput-7Hh3d") >>, <<1, 2>>),
       FlowFile("starter_projects/rag.json", "ok", "Vector Store RAG",
                "Load data for chat context",
                << Node("ChatInput-Ab12c"), Node("AstraDB-3fE21"),
                   Node("ChatOutput-7Hh3d") >>, <<1, 2>>) >>

\* the sub-sequence of a pool that a set of positions picks
Pick(pool, positions) ==
    LET kept == SelectSeq([k \in 1..Len(pool) |-> k], LAMBDA k : k \in positions)
    IN  [i \in 1..Len(kept) |-> pool[kept[i]]]

\* the artifact sets: any part of the two pools
ArtifactSets ==
    { [component_files |-> Pick(CrawlFilePool, cs), flow_files |-> Pick(CrawlFlowPool, fs)] :
        cs \in SUBSET (1..Len(CrawlFilePool)), fs \in SUBSET (1..Len(CrawlFlowPool)) }

\* between two crawls one file is added to or removed from the artifact set
ChangeArtifacts ==
    /\ pc = "crawled"
    /\ crawler.crawls < MaxCrawls
    /\ ~crawler.changed
    /\ \E next \in ArtifactSets :
          /\ Len(next.component_files) + Len(next.flow_files)
                \in { Len(files.component_files) + Len(files.flow_files) - 1,
                      Len(files.component_files) + Len(files.flow_files) + 1 }
          /\ LET paths(a) == {a.component_files[k].path : k \in 1..Len(a.component_files)}
                                \cup {a.flow_files[k].path : k \in 1..Len(a.flow_files)}
             IN  paths(next) \subseteq paths(files) \/ paths(files) \subseteq paths(next)
          /\ files' = next
    /\ crawler' = [crawler EXCEPT !.changed = TRUE]
    /\ observed' = NoObservation
    /\ UNCHANGED <<indexed, components, pc, requirement, flow, intent, first, svc, calls,
                   conv, indexer>>

\* the orders in which a process can iterate a set of component names: the
\* hash of a string differs from process to process
HashOrders ==
    { <<"ChatInput", "OpenAIModel", "AstraDB", "ChatOutput">>,
      <<"ChatOutput", "AstraDB", "OpenAIModel", "ChatInput">> }

\* the process ends and the program is started again: a new crawler with
\* empty tables, over the artifact set as it is
Restart ==
    /\ pc = "crawled"
    /\ crawler.crawls < MaxCrawls
    /\ ~crawler.restarted
    /\ \E order \in HashOrders :
          crawler' = [NoCrawler EXCEPT !.hash_order = order, !.crawls = crawler.crawls,
                                      !.changed = crawler.changed, !.last = Tables,
                                      !.restarted = TRUE]
    /\ pc' = "idle"
    /\ observed' = NoObservation
    /\ UNCHANGED <<indexed, components, requirement, flow, intent, first, svc, calls, conv,
                   files, indexer>>

\* RealAxieStudioCrawler.__init__ in a process with some artifact set on disk
InitCrawl ==
    /\ indexed = NoIndex
    /\ components = NoIndex
    /\ pc = "idle"
    /\ requirement = << >>
    /\ flow = EmptyFlow
    /\ intent = NoIntent
    /\ first = NoRun
    /\ templates = NoTemplates
    /\ super = NoCall
    /\ compatible = NoQuery
    /\ structure = NoStructure
    /\ files \in ArtifactSets
    /\ indexer = NoIndexer
    /\ \E order \in HashOrders : crawler = [NoCrawler EXCEPT !.hash_order = order]
    /\ observed = NoObservation
    /\ flows = NoFlows
    /\ chat = NoChat

NextCrawl ==
    \/ CrawlAll
    \/ CrawlComponentFile
    \/ CrawlFlowFile
    \/ CrawlReturns
    \/ ChangeArtifacts
    \/ Restart
    \/ Observe

SpecCrawl == InitCrawl /\ [][NextCrawl]_vars

---------------------------------------------------------------------------
(* Vocabulary of the properties *)

Returned == pc = "returned"
Nodes == flow.nodes
Edges == flow.edges

\* the registry record a node was created from
RecordOf(node) == components[node.type]
DeclaredOutputTypes(node) ==
    {RecordOf(node).outputs[k].type : k \in 1..Len(RecordOf(node).outputs)}
DeclaredInputNames(node) ==
    {RecordOf(node).inputs[k].name : k \in 1..Len(RecordOf(node).inputs)}

\* The equivalence rule of the data model: equal ignoring letter case, or one
\* is the text-message type and the other the primitive string type
TypeEquivalent(a, b) ==
    \/ Lower(a) = Lower(b)
    \/ {Lower(a), Lower(b)} = {"message", "str"}

\* edge e joins the adjacent pair (i, i+1)
JoinsPair(e, i) == e.source = Nodes[i].id /\ e.target = Nodes[i + 1].id

Min(S) == CHOOSE m \in S : \A n \in S : m <= n

---------------------------------------------------------------------------
(* C1: all node ids of a produced graph are pairwise distinct, for every    *)
(* value the short-id generator can return, also when a name is repeated.  *)
(* The code draws five hexadecimal digits of a fresh uuid4 per node and    *)
(* never compares them: two nodes of the same component can get one id.    *)
C1_NodeIdsDistinct ==
    Returned =>
        \A i, j \in 1..Len(Nodes) : i # j => Nodes[i].id # Nodes[j].id

(* C2: an adjacent pair gets an edge if and only if some declared output   *)
(* type of the source and some declared input type of the target are       *)
(* equivalent (equal ignoring case, or Message and str in any case).  The  *)
(* code special-cases only the exact spelling "Message".                   *)
C2_EdgeIffTypeMatch ==
    Returned =>
        \A i \in 1..(Len(Nodes) - 1) :
            (\E k \in 1..Len(Edges) : JoinsPair(Edges[k], i))
            <=> (\E o \in 1..Len(RecordOf(Nodes[i]).outputs) :
                 \E j \in 1..Len(RecordOf(Nodes[i + 1]).inputs) :
                    TypeEquivalent(RecordOf(Nodes[i]).outputs[o].type,
                                   RecordOf(Nodes[i + 1]).inputs[j].type))

(* C3 as stated: the target slot of an edge is the first-declared input    *)
(* slot of the target that matches ANY output type of the source.          *)
C3_FirstSlotMatchingAnyOutput ==
    Returned =>
        \A i \in 1..(Len(Nodes) - 1) : \A k \in 1..Len(Edges) :
            JoinsPair(Edges[k], i) =>
                LET ins == RecordOf(Nodes[i + 1]).inputs
                    outs == RecordOf(Nodes[i]).outputs
                    matching == {j \in 1..Len(ins) :
                                    \E o \in 1..Len(outs) :
                                        TypeEquivalent(outs[o].type, ins[j].type)}
                IN  /\ matching # {}
                    /\ Edges[k].targetHandle.fieldName = ins[Min(matching)].name

(* C3 as amended: the edge carries the first-declared output type of the   *)
(* source that the synthesizer's test matches with some input slot of the  *)
(* target, and its target slot is the first-declared slot matching THAT    *)
(* output type (outputs are the outer loop, slots the inner one).          *)
C3_FirstSlotOfFirstMatchingOutput ==
    Returned =>
        \A i \in 1..(Len(Nodes) - 1) : \A k \in 1..Len(Edges) :
            JoinsPair(Edges[k], i) =>
                LET outs == Nodes[i].output_types
                    slots == Nodes[i + 1].template
                    accepts(o) == {j \in 1..Len(slots) : TypesMatch(slots[j].type, outs[o])}
                    matched == {o \in 1..Len(outs) : accepts(o) # {}}
                IN  /\ matched # {}
                    /\ Edges[k].sourceHandle.output_types = << outs[Min(matched)] >>
                    /\ Edges[k].targetHandle.fieldName
                          = slots[Min(accepts(Min(matched)))].name
                    /\ slots[Min(accepts(Min(matched)))].name
                          = RecordOf(Nodes[i + 1]).inputs[Min(accepts(Min(matched)))].name

\* a language model feeding an agent: the first slot (llm) matches only the
\* second output (LanguageModel); the edge goes to system_message
C3_Witness ==
    /\ Returned
    /\ \E i \in 1..(Len(Nodes) - 1) : \E k \in 1..Len(Edges) :
          /\ JoinsPair(Edges[k], i)
          /\ Nodes[i].type = "OpenAIModel" /\ Nodes[i + 1].type = "Agent"
          /\ Edges[k].targetHandle.fieldName = "system_message"
          /\ Edges[k].sourceHandle.output_types = <<"Message">>

(* C4: every edge joins ids of nodes of the graph, its source node comes   *)
(* strictly before its target node (no self-loop, no backward edge), its   *)
(* output type is declared on the source component and its field name on   *)
(* the target component.  Two equal node ids (C1) make an edge a self-loop.*)
C4_EdgesWellFormed ==
    Returned =>
        \A k \in 1..Len(Edges) :
            /\ \E i, j \in 1..Len(Nodes) :
                  /\ Nodes[i].id = Edges[k].source
                  /\ Nodes[j].id = Edges[k].target
                  /\ Edges[k].sourceHandle.output_types[1] \in DeclaredOutputTypes(Nodes[i])
                  /\ Edges[k].targetHandle.fieldName \in DeclaredInputNames(Nodes[j])
            /\ Edges[k].source # Edges[k].target
            /\ \A i, j \in 1..Len(Nodes) :
                  (Nodes[i].id = Edges[k].source /\ Nodes[j].id = Edges[k].target)
                      => i < j

\* the edges, in order, join adjacent pairs of strictly increasing index
RECURSIVE InPairOrder(_, _)
InPairOrder(k, i) ==
    IF k > Len(Edges) THEN TRUE
    ELSE LET later == {n \in i..(Len(Nodes) - 1) : JoinsPair(Edges[k], n)}
         IN  later # {} /\ InPairOrder(k + 1, Min(later) + 1)

ScenarioPositions ==
    << [x |-> 100, y |-> 100], [x |-> 400, y |-> 100], [x |-> 700, y |-> 100] >>

Finished == pc \in {"returned", "raised"}

(* C6 as stated: the list ChatInput, LanguageModel, ChatOutput yields      *)
(* exactly 3 nodes and 2 edges, ids prefixed by the three names, at        *)
(* (100,100), (400,100), (700,100).  No hand-authored record is named      *)
(* LanguageModel: the name is skipped, or resolves to an extracted record. *)
C6_ScenarioLanguageModel ==
    (Finished /\ requirement = <<"ChatInput", "LanguageModel", "ChatOutput">>) =>
        /\ Returned
        /\ Len(Nodes) = 3 /\ Len(Edges) = 2
        /\ StartsWith(Nodes[1].id, "ChatInput-")
        /\ StartsWith(Nodes[2].id, "LanguageModel-")
        /\ StartsWith(Nodes[3].id, "ChatOutput-")
        /\ [k \in 1..3 |-> Nodes[k].position] = ScenarioPositions

(* C6 as amended: the list ChatInput, OpenAIModel, ChatOutput (the         *)
(* registry's name of the language model) yields exactly 3 nodes and 2     *)
(* edges, ids prefixed ChatInput-, OpenAIModel-, ChatOutput-, at           *)
(* (100,100), (400,100), (700,100).                                        *)
C6_ScenarioOpenAIModel ==
    (Finished /\ requirement = <<"ChatInput", "OpenAIModel", "ChatOutput">>) =>
        /\ Returned
        /\ Len(Nodes) = 3 /\ Len(Edges) = 2
        /\ StartsWith(Nodes[1].id, "ChatInput-")
        /\ StartsWith(Nodes[2].id, "OpenAIModel-")
        /\ StartsWith(Nodes[3].id, "ChatOutput-")
        /\ [k \in 1..3 |-> Nodes[k].position] = ScenarioPositions

C6_Witness ==
    /\ Returned
    /\ requirement = <<"ChatInput", "OpenAIModel", "ChatOutput">>
    /\ Len(Edges) = 2
    /\ Edges[1].targetHandle.fieldName = "input_value"
    /\ Edges[2].targetHandle.fieldName = "input_value"

(* C7: the node of the name at 0-based index i of the input list is at     *)
(* x = 100 + (i mod 3) * 300, y = 100 + floor(i / 3) * 200, i being the    *)
(* index in the input list also when earlier names were skipped; no two    *)
(* nodes of a graph share a position.                                      *)
C7_GridPositionByInputIndex ==
    Returned =>
        LET idx == ResolvedIndices(requirement)
        IN  /\ Len(idx) = Len(Nodes)
            /\ \A k \in 1..Len(Nodes) :
                  /\ Nodes[k].type = requirement[idx[k]]
                  /\ Nodes[k].position.x = 100 + ((idx[k] - 1) % 3) * 300
                  /\ Nodes[k].position.y = 100 + ((idx[k] - 1) \div 3) * 200
            /\ \A k, m \in 1..Len(Nodes) :
                  k # m => Nodes[k].position # Nodes[m].position

\* a skipped first name, and a fourth name placed on the second row
C7_Witness ==
    /\ Returned
    /\ Len(requirement) = 4
    /\ get_component(requirement[1]) = << >>
    /\ Len(Nodes) = 3
    /\ Nodes[1].position = [x |-> 400, y |-> 100]
    /\ Nodes[3].position = [x |-> 100, y |-> 300]

(* C8: for every input list generate_flow_json returns a graph whose node  *)
(* sequence is the subsequence of the names that resolve, in input order,  *)
(* one node per occurrence; an unresolvable name is skipped.  A name that  *)
(* resolves to an extracted record with an input slot makes the call raise *)
(* KeyError (C27), so no graph is returned for that list.                  *)
C8_NodesAreResolvedSubsequence ==
    Finished =>
        /\ Returned
        /\ [k \in 1..Len(Nodes) |-> Nodes[k].type]
              = SelectSeq(requirement, LAMBDA n : n \in DOMAIN components)

ClaimedDefaults ==
    ("model_name" :> Value("str", "gpt-3.5-turbo")) @@
    ("temperature" :> Value("float", "0.7")) @@
    ("chunk_size" :> Value("int", "1000")) @@
    ("chunk_overlap" :> Value("int", "200")) @@
    ("collection_name" :> Value("str", "documents"))

CodeDefaults ==
    ClaimedDefaults @@
    ("max_tokens" :> Value("int", "1000")) @@
    ("should_store_message" :> Value("bool", "True")) @@
    ("sender" :> Value("str", "User"))

\* one field value per declared input slot, each given by the table
FieldValuesFollow(table) ==
    \A k \in 1..Len(Nodes) :
        LET ins == RecordOf(Nodes[k]).inputs
            tpl == Nodes[k].template
        IN  /\ Len(tpl) = Len(ins)
            /\ \A j \in 1..Len(ins) :
                  /\ tpl[j].name = ins[j].name
                  /\ tpl[j].value = IF ins[j].name \in DOMAIN table
                                    THEN table[ins[j].name]
                                    ELSE Value("str", "")

(* C9 as stated: one field value per declared input slot, given by the     *)
(* table model_name, temperature, chunk_size, chunk_overlap,               *)
(* collection_name, and the empty string for every other slot name.        *)
C9_FiveEntryDefaultTable == Returned => FieldValuesFollow(ClaimedDefaults)

(* C9 as amended: one field value per declared input slot, given by the    *)
(* table model_name -> "gpt-3.5-turbo", temperature -> 0.7, max_tokens ->  *)
(* 1000, chunk_size -> 1000, chunk_overlap -> 200, collection_name ->      *)
(* "documents", should_store_message -> True, sender -> "User", and the    *)
(* empty string for every other slot name.                                 *)
C9_EightEntryDefaultTable == Returned => FieldValuesFollow(CodeDefaults)

\* a node with table entries (model_name, temperature, max_tokens) and
\* slots outside the table (input_value, api_key)
C9_Witness ==
    /\ Returned
    /\ \E k \in 1..Len(Nodes) :
          /\ Nodes[k].type = "OpenAIModel"
          /\ Nodes[k].template[4].name = "max_tokens"
          /\ Nodes[k].template[4].value = Value("int", "1000")
          /\ Nodes[k].template[5].value = Value("str", "")

\* the priority rule on the lower-cased text, for three keyword sets
PriorityLabel(text, document_kws, agent_kws, rag_kws) ==
    LET t == Lower(text)
    IN  IF \E kw \in document_kws : Contains(kw, t) THEN "document_qa"
        ELSE IF \E kw \in agent_kws : Contains(kw, t) THEN "agent_tools"
        ELSE IF \E kw \in rag_kws : Contains(kw, t) THEN "rag_system"
        ELSE "basic_chat"

Classified == pc = "classified"

C11_TestTableExpectations ==
    (Classified /\ intent.by = "rules") =>
        /\ (intent.text \in DOMAIN ExpectedType
               => intent.label = ExpectedType[intent.text])
        /\ (Contains("embedding", Lower(intent.text)) => intent.label = "rag_system")

(* C12: two runs of the fallback classification on one text give the      *)
(* same label, and two runs of the whole rule-based generation on the same *)
(* component sequence give the same node ids and the same edges.  The      *)
(* suffix of a node id is drawn from uuid4 in every run.                   *)
C12_TwoRunsAgree ==
    pc = "repeated" =>
        /\ first.label = intent.label
        /\ first.node_ids = NodeIds(Nodes)
        /\ first.edges = Edges

ServiceDone == pc = "done"

(* C13: for every outcome of the classification oracle (exception,         *)
(* malformed reply, JSON that is no object, object without a use-case key) *)
(* generate_flow_super_fast does not fail: it goes on with the keyword     *)
(* fallback or a usable intent record and returns a flow document.  A      *)
(* reply that is JSON but no object is returned as the intent, and         *)
(* intent.get raises AttributeError.                                       *)
C13_OracleOutcomesHandled ==
    (super.use_ai /\ super.intent_reply # "") =>
        /\ super.intent.json = "object"
        /\ ~super.outcome.raised
        /\ (ServiceDone => super.outcome.flow_data # << >>)

(* C14: every generation call eventually returns a result even if the      *)
(* oracle never answers, the oracle call being bounded by a timeout or a   *)
(* cancellation.  The source passes no timeout and awaits nothing: the     *)
(* call stays in chat.completions.create as long as the oracle is silent.  *)
C14_GenerationEventuallyReturns ==
    (pc \in {"intent_call", "select_call"}) ~> ServiceDone

\* the recipe the selector fallback rule prescribes for a label
PrescribedRecipe(label) ==
    IF label \in DOMAIN component_selection_rules
    THEN component_selection_rules[label]
    ELSE component_selection_rules["basic_chat"]

(* C15: for a label that is no key of the recipe table every selector      *)
(* returns the basic_chat recipe, for the four table labels that label's   *)
(* recipe, whether or not the oracle is reachable.  With the oracle        *)
(* reachable _select_components_super_fast returns the oracle's list, and  *)
(* get_components_for_use_case returns the empty list for an unknown label.*)
C15_SelectorFallsBackToBasicChat ==
    (ServiceDone /\ super.use_ai /\ ~super.outcome.raised) =>
        LET label == GetUseCase(super.intent, "basic_chat")
        IN  /\ super.selected = PrescribedRecipe(label)
            /\ get_components_for_use_case(label) = PrescribedRecipe(label)

Last(seq) == seq[Len(seq)]

(* C16: every component list the program selects for a request (recipe     *)
(* tables and analyze_user_intent, for every text) ends with ChatOutput.   *)
(* analyze_user_intent appends CalculatorComponent and WebSearchTool after *)
(* ChatOutput.                                                             *)
C16_PipelinesEndWithChatOutput ==
    /\ \A label \in DOMAIN flow_templates : Last(flow_templates[label]) = "ChatOutput"
    /\ \A label \in DOMAIN component_selection_rules :
          Last(component_selection_rules[label]) = "ChatOutput"
    /\ (Classified /\ intent.by = "rules") =>
          /\ intent.components # << >>
          /\ Last(intent.components) = "ChatOutput"

(* C17: of a component list the ranking oracle proposes the core accepts   *)
(* the names that resolve in the registry, in their order, and takes the   *)
(* use case's table recipe when the reply is empty, no list, or leaves no  *)
(* resolvable name.  _select_components_super_fast returns the oracle's    *)
(* list as it is, and the empty list for a reply that is no list.          *)
C17_OracleListValidated ==
    (ServiceDone /\ super.select_reply.kind \in {"array", "object"}) =>
        LET kept == SelectSeq(super.select_reply.items,
                              LAMBDA n : n \in DOMAIN components)
        IN  super.selected =
                IF kept # << >> THEN kept
                ELSE PrescribedRecipe(GetUseCase(super.intent, "basic_chat"))

(* C18: a request whose component list holds no resolvable name never      *)
(* yields a successful document with zero nodes.  generate_flow_json       *)
(* returns the document with an empty node list.                           *)
C18_NoEmptySuccess ==
    (Returned /\ requirement # << >> /\ ResolvedIndices(requirement) = << >>)
        => Len(Nodes) >= 1

(* C19: get_compatible_components(output_type) returns exactly the records *)
(* with an input slot whose type is equivalent to output_type (equal        *)
(* ignoring case, or Message and str), each record once, and the empty     *)
(* list when there is none.  The source compares with ==, so for "Message" *)
(* the records whose inputs are str slots are left out.                    *)
C19_CompatibleByEquivalence ==
    pc = "queried" =>
        LET result == compatible.result
            matching == {components[n] : n \in
                           {m \in DOMAIN components :
                              \E k \in 1..Len(components[m].inputs) :
                                 TypeEquivalent(components[m].inputs[k].type,
                                                compatible.output_type)}}
        IN  /\ {result[i] : i \in 1..Len(result)} = matching
            /\ Len(result) = Cardinality(matching)

(* C20: no generation request changes the registry or the stored example   *)
(* flows and templates: every step leaves components, templates and flows  *)
(* as they were.  The except branch of _customize_flow_with_ai assigns     *)
(* name and description of the stored example flow it was handed.          *)
C20_StoresNeverChange ==
    [][components' = components /\ templates' = templates /\ flows' = flows]_vars

(* C27: generate_flow_json never raises, for any component list over any   *)
(* registry content, partial records of the extractor included.            *)
(* _create_node reads input_field["display_name"], which an extracted      *)
(* input slot does not carry.                                              *)
C27_GenerateFlowJsonNeverRaises == pc # "raised"

(* C29: in every produced graph the edge ids are pairwise distinct: two    *)
(* distinct adjacent pairs never receive the same edge id.  The id is built *)
(* from the two node ids only, and two nodes of one component can share an *)
(* id (C1), so two pairs of the same components can share an edge id.      *)
C29_EdgeIdsDistinct ==
    Returned =>
        \A k, l \in 1..Len(Edges) : k # l => Edges[k].id # Edges[l].id

\* the slot names of a record are pairwise distinct
DistinctInputNames(record) ==
    \A i, j \in 1..Len(record.inputs) :
        i # j => record.inputs[i].name # record.inputs[j].name

(* C26: in every record of the registry, the records the extractor makes   *)
(* of any artifact text included, the input slot names are pairwise        *)
(* distinct.  _extract_inputs appends one slot per match and never looks   *)
(* at the names it already has.                                            *)
C26_InputNamesDistinct ==
    /\ \A n \in DOMAIN indexed : DistinctInputNames(indexed[n])
    /\ \A n \in DOMAIN components : DistinctInputNames(components[n])

\* the knowledge base is built
Loaded == pc = "loaded"

(* C28: after _load_indexed_components every hand-authored name maps to    *)
(* its original record, an indexed record is added only under a name not   *)
(* already present, and if loading the index fails the registry equals the *)
(* hand-authored table.                                                    *)
C28_MergeKeepsHandAuthored ==
    Loaded =>
        /\ \A n \in DOMAIN initialize_components : components[n] = initialize_components[n]
        /\ \A n \in DOMAIN components \ DOMAIN initialize_components :
              n \in DOMAIN indexed /\ components[n] = ConvertIndexed(indexed[n])
        /\ ~indexer.loaded => components = initialize_components

\* an extracted record with a hand-authored name met the merge, and another
\* extracted record was added
C28_Witness ==
    /\ Loaded /\ indexer.loaded
    /\ "ChatInput" \in DOMAIN indexed
    /\ indexed["ChatInput"].display_name = "Chat Input"
    /\ "LanguageModel" \in DOMAIN components

\* the tier the rule gives for n nodes and e edges
TierOf(n, e) ==
    IF n <= 3 /\ e <= 2 THEN "simple"
    ELSE IF n <= 7 /\ e <= 6 THEN "medium"
    ELSE "complex"

(* C24: the complexity tier of every indexed example flow is simple when   *)
(* n <= 3 and e <= 2, otherwise medium when n <= 7 and e <= 6, otherwise   *)
(* complex, n being the number of nodes of data.nodes and e the number of  *)
(* edges.  _analyze_flow_file counts only the nodes that carry a 'type'    *)
(* key.                                                                    *)
C24_ComplexityByNodeCount ==
    \A name \in DOMAIN indexer.flows :
        LET info == indexer.flows[name]
        IN  info.complexity = TierOf(Len(info.json_structure.nodes),
                                     Len(info.json_structure.edges))

\* the list the structure holds under key, at the top level or under data
Produced(value, key) ==
    IF key \in DOMAIN value THEN value[key]
    ELSE IF "data" \in DOMAIN value /\ key \in DOMAIN value.data THEN value.data[key]
    ELSE << >>

(* C25: the assembled document's data.nodes and data.edges have the counts *)
(* of the nodes and edges that were produced, and data.viewport is the     *)
(* default {x: 0, y: 0, zoom: 1}, for generate_flow_json and for           *)
(* _create_flow_json whatever keys the flow structure carries.             *)
(* _create_flow_json takes a "data" key of the structure as it is.         *)
C25_DocumentKeepsCountsAndViewport ==
    /\ Returned =>
          /\ Len(flow.nodes) = Len(ResolvedIndices(requirement))
          /\ Len(flow.edges) = Len(create_edges(flow.nodes))
          /\ flow.viewport = DefaultViewport
    /\ pc = "assembled" =>
          /\ \A key \in {"nodes", "edges"} :
                /\ key \in DOMAIN flow
                /\ Len(flow[key]) = Len(Produced(structure.value, key))
          /\ "viewport" \in DOMAIN flow
          /\ flow.viewport = DefaultViewport

(* C21: a reader of the shared tables during a crawl sees the complete     *)
(* table from before the crawl or the complete table after it, never a     *)
(* table holding part of the new records.  crawl_all writes each record    *)
(* into self.components as soon as its file is analysed.                   *)
C21_ReaderSeesCompleteTable ==
    observed.seen => observed.components \in {observed.before, observed.after}

\* crawl_all has returned
Crawled == pc = "crawled"

C23_EveryReadableComponentRecorded ==
    Crawled =>
        \A k \in 1..Len(files.component_files) :
            LET file == files.component_files[k]
            IN  (file.status = "ok" /\ is_axiestudio_component(file)) =>
                    \A c \in 1..Len(file.classes) :
                        file.classes[c].name \in DOMAIN crawler.components

(* C30: after any sequence of crawls interleaved with changes of the       *)
(* artifact set the tables hold exactly what the artifact set of the       *)
(* latest crawl yields.  crawl_all never empties its tables, so the        *)
(* records of a removed artifact stay.                                     *)
C30_TablesFollowLatestArtifactSet ==
    Crawled => Tables = crawl_all(NoTables, files, crawler.hash_order)

====
